---- MODULE Spec2Model ----
(***************************************************************************)
(* A model of the two collection classes of @beastboyadi/collection:       *)
(* jsonCollection (src/src/jsonCollection.js), which keeps its entries in  *)
(* a plain JavaScript object this.json, and mapCollection                  *)
(* (src/src/mapCollection.js), which extends the native Map.               *)
(*                                                                         *)
(* JavaScript values are records [t |-> tag, v |-> text]; the text of a    *)
(* number, boolean, null, undefined, plain object or array is what         *)
(* util.inspect prints for it.  A store is the sequence of its entries     *)
(* [k |-> key, v |-> value] in the order the engine enumerates them.       *)
(***************************************************************************)
EXTENDS Integers, Sequences, FiniteSets, TLC

VARIABLES kind, ref, heap, last, files, task

vars == <<kind, ref, heap, last, files, task>>

\* ------------------------------------------------------------------------
\* Bounds

\* the largest number of entries a store is driven to
MaxSize == 2

\* the largest number of pieces appended to one file
MaxPieces == 2

\* ------------------------------------------------------------------------
\* JavaScript values

Str(s) == [t |-> "string", v |-> s]
Num(s) == [t |-> "number", v |-> s]
Null == [t |-> "null", v |-> "null"]
Undefined == [t |-> "undefined", v |-> "undefined"]
True == [t |-> "boolean", v |-> "true"]
False == [t |-> "boolean", v |-> "false"]
Bool(b) == IF b THEN True ELSE False
\* one plain object {} and one array [1], each a single identity
Obj == [t |-> "object", v |-> "{}"]
Arr == [t |-> "array", v |-> "[ 1 ]"]
Sym == [t |-> "symbol", v |-> "Symbol(s)"]
Fn == [t |-> "function", v |-> "[Function: fn]"]
\* a thrown TypeError
ThrowTypeError == [t |-> "throw", v |-> "TypeError"]
\* no call has been made yet, or the call takes no such argument
NoValue == [t |-> "none", v |-> ""]

\* the number i as a JavaScript value
NumOf(i) ==
  Num(CASE i = 0 -> "0" [] i = 1 -> "1" [] i = 2 -> "2" [] i = 3 -> "3"
        [] i = 4 -> "4" [] i = 5 -> "5" [] i = 6 -> "6" [] i = 7 -> "7"
        [] i = 8 -> "8" [] OTHER -> "9")

\* the typeof operator
TypeOf(x) ==
  CASE x.t = "null" -> "object"
    [] x.t = "array" -> "object"
    [] x.t = "collection" -> "object"
    [] OTHER -> x.t

\* util.inspect(x) for the values the code passes to it (never a string or
\* a symbol): the printed text, as a string
inspect(x) == Str(x.v)

\* String(x), the text ToPropertyKey gives a non-symbol property key
ToStringText(x) ==
  CASE x.t = "object" -> "[object Object]"
    [] x.t = "array" -> "1"
    [] x.t = "function" -> "function fn() {}"
    [] OTHER -> x.v

\* ToPropertyKey: what obj[x] and obj.hasOwnProperty(x) use as the key
ToPropertyKey(x) == IF x.t = "symbol" THEN x ELSE Str(ToStringText(x))

\* ToBoolean: the falsy values are null, undefined, "", 0 and false
Truthy(x) ==
  ~ \/ x.t \in {"null", "undefined"}
    \/ x = Str("")
    \/ x = Num("0")
    \/ x = False

\* the canonical array indices among the modelled strings, -1 for the rest
ArrayIndex(s) ==
  CASE s = "0" -> 0
    [] s = "1" -> 1
    [] s = "2" -> 2
    [] OTHER -> 0 - 1

\* ------------------------------------------------------------------------
\* Sequences of entries

Entry(k, v) == [k |-> k, v |-> v]

RECURSIVE SeqKeys(_)
SeqKeys(s) == IF s = << >> THEN << >> ELSE <<Head(s).k>> \o SeqKeys(Tail(s))

RECURSIVE SeqValues(_)
SeqValues(s) == IF s = << >> THEN << >> ELSE <<Head(s).v>> \o SeqValues(Tail(s))

KeySet(s) == {s[i].k : i \in 1..Len(s)}

Lookup(s, k) == (CHOOSE i \in 1..Len(s) : s[i].k = k)

RECURSIVE Without(_, _)
Without(s, k) ==
  IF s = << >> THEN << >>
  ELSE IF Head(s).k = k THEN Without(Tail(s), k)
  ELSE <<Head(s)>> \o Without(Tail(s), k)

RECURSIVE Reverse(_)
Reverse(s) == IF s = << >> THEN << >> ELSE Reverse(Tail(s)) \o <<Head(s)>>

Includes(s, x) == \E i \in 1..Len(s) : s[i] = x

\* Array.prototype.slice(start, end) with relative (negative) indices
RelIndex(i, n) == IF i < 0 THEN (IF n + i < 0 THEN 0 ELSE n + i) ELSE (IF i > n THEN n ELSE i)
Slice(s, start, end) == SubSeq(s, RelIndex(start, Len(s)) + 1, RelIndex(end, Len(s)))

\* ------------------------------------------------------------------------
\* The plain object this.json

\* own property keys are enumerated array indices first (ascending), then
\* strings in creation order, then symbols in creation order
KeyRank(k) ==
  IF k.t = "symbol" THEN 2 ELSE IF ArrayIndex(k.v) >= 0 THEN 0 ELSE 1

KeyBefore(a, new) ==
  \/ KeyRank(a) < KeyRank(new)
  \/ /\ KeyRank(a) = KeyRank(new)
     /\ (KeyRank(new) = 0 => ArrayIndex(a.v) < ArrayIndex(new.v))

HasOwnProperty(o, x) == ToPropertyKey(x) \in KeySet(o)

\* o[x]: the own property, undefined when there is none
GetProp(o, x) ==
  IF HasOwnProperty(o, x) THEN o[Lookup(o, ToPropertyKey(x))].v ELSE Undefined

\* o[x] = value
PutProp(o, x, value) ==
  LET pk == ToPropertyKey(x) IN
  IF pk \in KeySet(o)
  THEN [o EXCEPT ![Lookup(o, pk)] = Entry(pk, value)]
  ELSE LET n == Cardinality({i \in 1..Len(o) : KeyBefore(o[i].k, pk)})
       IN SubSeq(o, 1, n) \o <<Entry(pk, value)>> \o SubSeq(o, n + 1, Len(o))

\* delete o[x]
DeleteProp(o, x) == Without(o, ToPropertyKey(x))

\* the enumerable string-keyed properties: Object.keys/values/entries, for-in
StringProps(o) == SelectSeq(o, LAMBDA e : e.k.t = "string")

\* ------------------------------------------------------------------------
\* jsonCollection: the methods over the object o held in this.json

\* the receiver a method returns for chaining
Self == [t |-> "collection", v |-> "this"]

jsonSize(o) == Len(StringProps(o))

jsonKeys(o) == IF jsonSize(o) = 0 THEN << >> ELSE SeqKeys(StringProps(o))

jsonValues(o) == IF jsonSize(o) = 0 THEN << >> ELSE SeqValues(StringProps(o))

jsonEntries(o) == IF jsonSize(o) = 0 THEN << >> ELSE StringProps(o)

\* [Symbol.iterator]: for (const key in this.json) yield [key, this.json[key]]
jsonIterator(o) == StringProps(o)

\* set without the check of the key's type
jsonSetAnyKey(o, key, value) ==
  LET k == IF TypeOf(key) \notin {"string", "symbol", "undefined"}
           THEN inspect(key) ELSE key
  IN [ret |-> Self, st |-> PutProp(o, k, value)]

jsonSet(o, key, value) ==
  IF TypeOf(key) = "function" THEN [ret |-> ThrowTypeError, st |-> o]
  ELSE LET k == IF TypeOf(key) \notin {"string", "symbol", "undefined"}
                THEN inspect(key) ELSE key
       IN [ret |-> Self, st |-> PutProp(o, k, value)]

jsonGet(o, key) ==
  IF TypeOf(key) = "function" THEN ThrowTypeError
  ELSE LET k == IF TypeOf(key) \notin {"string", "symbol", "undefined"}
                THEN inspect(key) ELSE key
       IN IF ~HasOwnProperty(o, key) THEN Null ELSE GetProp(o, k)

jsonHas(o, key) ==
  IF jsonSize(o) = 0 THEN False
  ELSE IF TypeOf(key) = "undefined" THEN False
  ELSE IF TypeOf(key) = "function" THEN ThrowTypeError
  ELSE LET k == IF TypeOf(key) \notin {"string", "symbol"}
                THEN inspect(key) ELSE key
       IN Bool(Includes(jsonKeys(o), k))

jsonDelete(o, key) ==
  IF TypeOf(key) = "undefined" THEN [ret |-> Null, st |-> o]
  ELSE IF TypeOf(key) = "function" THEN [ret |-> ThrowTypeError, st |-> o]
  ELSE LET k == IF TypeOf(key) \notin {"string", "symbol", "undefined"}
                THEN inspect(key) ELSE key
       IN [ret |-> Self, st |-> DeleteProp(o, k)]

\* ------------------------------------------------------------------------
\* mapCollection: the methods over the entries m of the underlying Map

mapSize(m) == Len(m)

mapKeys(m) == IF mapSize(m) = 0 THEN << >> ELSE SeqKeys(m)

mapValues(m) == IF mapSize(m) = 0 THEN << >> ELSE SeqValues(m)

mapEntries(m) == IF mapSize(m) = 0 THEN << >> ELSE m

\* Map.prototype.set: a present key keeps its place, a new one goes last
mapSet(m, key, value) ==
  [ret |-> Self,
   st |-> IF key \in KeySet(m)
          THEN [m EXCEPT ![Lookup(m, key)] = Entry(key, value)]
          ELSE Append(m, Entry(key, value))]

mapGet(m, key) == IF key \in KeySet(m) THEN m[Lookup(m, key)].v ELSE Undefined

mapHas(m, key) == IF mapSize(m) = 0 THEN False ELSE Bool(key \in KeySet(m))

mapDelete(m, key) == [ret |-> Self, st |-> Without(m, key)]

\* ------------------------------------------------------------------------
\* The primitives of either kind, on a store st

ColSize(kd, st) == IF kd = "json" THEN jsonSize(st) ELSE mapSize(st)

ColKeys(kd, st) == IF kd = "json" THEN jsonKeys(st) ELSE mapKeys(st)

ColValues(kd, st) == IF kd = "json" THEN jsonValues(st) ELSE mapValues(st)

ColEntries(kd, st) == IF kd = "json" THEN jsonEntries(st) ELSE mapEntries(st)

ColIterator(kd, st) == IF kd = "json" THEN jsonIterator(st) ELSE st

ColSet(kd, st, key, value) ==
  IF kd = "json" THEN jsonSet(st, key, value) ELSE mapSet(st, key, value)

ColGet(kd, st, key) == IF kd = "json" THEN jsonGet(st, key) ELSE mapGet(st, key)

ColHas(kd, st, key) == IF kd = "json" THEN jsonHas(st, key) ELSE mapHas(st, key)

ColDelete(kd, st, key) ==
  IF kd = "json" THEN jsonDelete(st, key) ELSE mapDelete(st, key)

\* ------------------------------------------------------------------------
\* Methods written once in each class over the primitives

\* the callbacks handed to sweep: () => true and (v) => v === "x"
Fns == {"true", "isX"}

Apply(fn, v, k) == IF fn = "true" THEN TRUE ELSE v = Str("x")

\* the loop of sweep: for (let [k, v] of this) if (fn(v, k, this)) this.delete(k)
RECURSIVE SweepLoop(_, _, _, _)
SweepLoop(kd, st, it, fn) ==
  IF it = << >> THEN st
  ELSE SweepLoop(kd,
                 IF Apply(fn, Head(it).v, Head(it).k)
                 THEN ColDelete(kd, st, Head(it).k).st ELSE st,
                 Tail(it), fn)

\* sweep returning the size before the loop instead of the difference
sweepSizeBefore(kd, st, fn) ==
  [ret |-> NumOf(ColSize(kd, st)),
   st |-> SweepLoop(kd, st, ColIterator(kd, st), fn)]

sweep(kd, st, fn) ==
  LET prevSize == ColSize(kd, st)
      after == SweepLoop(kd, st, ColIterator(kd, st), fn)
  IN [ret |-> NumOf(prevSize - ColSize(kd, after)), st |-> after]

\* jsonCollection clears through sweep, mapCollection through Map's clear
clear(kd, st) ==
  IF kd = "json" THEN [ret |-> True, st |-> sweep(kd, st, "true").st]
  ELSE [ret |-> True, st |-> << >>]

\* Array.prototype.at
At(s, i) ==
  LET k == IF i < 0 THEN Len(s) + i ELSE i
  IN IF k < 0 \/ k >= Len(s) THEN Undefined ELSE s[k + 1]

keyAt(kd, st, index) ==
  IF ColSize(kd, st) = 0 THEN Null ELSE At(ColKeys(kd, st), index)

\* firstKey(index) and lastKey(index); given is FALSE when index is omitted.
\* The result is one key (arr FALSE) or an array of keys (arr TRUE).
firstKey(kd, st, given, index) ==
  IF ColSize(kd, st) = 0 THEN [arr |-> FALSE, one |-> Null, many |-> << >>]
  ELSE IF given /\ index > ColSize(kd, st)
  THEN [arr |-> FALSE, one |-> Undefined, many |-> << >>]
  ELSE IF ~given \/ index = 0 \/ index < 2
  THEN [arr |-> FALSE, one |-> ColKeys(kd, st)[1], many |-> << >>]
  ELSE [arr |-> TRUE, one |-> NoValue, many |-> Slice(ColKeys(kd, st), 0, index)]

lastKey(kd, st, given, index) ==
  IF ColSize(kd, st) = 0 THEN [arr |-> FALSE, one |-> Null, many |-> << >>]
  ELSE IF given /\ index > ColSize(kd, st)
  THEN [arr |-> FALSE, one |-> Undefined, many |-> << >>]
  ELSE LET keys == Reverse(ColKeys(kd, st)) IN
    IF ~given \/ index = 0 \/ index < 2
    THEN [arr |-> FALSE, one |-> keys[1], many |-> << >>]
    ELSE [arr |-> TRUE, one |-> NoValue, many |-> Slice(keys, 0, index)]

\* the body shared by first and last, keys being what firstKey or lastKey
\* returned: null for a falsy result, else the value or values got
GetResolved(kd, st, keys) ==
  IF ~keys.arr /\ ~Truthy(keys.one)
  THEN [arr |-> FALSE, one |-> Null, many |-> << >>]
  ELSE IF ~keys.arr
  THEN [arr |-> FALSE, one |-> ColGet(kd, st, keys.one), many |-> << >>]
  ELSE [arr |-> TRUE, one |-> NoValue,
        many |-> [i \in 1..Len(keys.many) |-> ColGet(kd, st, keys.many[i])]]

first(kd, st, given, index) ==
  GetResolved(kd, st, firstKey(kd, st, given, index))

last_(kd, st, given, index) ==
  GetResolved(kd, st, lastKey(kd, st, given, index))

\* this.randomKey(startIndex, endIndex); u is Math.floor(Math.random() * n)
\* of the branch taken, a number of 0 .. n - 1 (0 when n is 0).  typeof
\* gives lower-case names, so the test against "Number" sends every call
\* to the first branch.
randomKey(kd, st, startIndex, endIndex, u) ==
  LET arr == ColKeys(kd, st) IN
  IF ColSize(kd, st) = 0 THEN Null
  ELSE IF arr = << >> THEN Arr
  ELSE IF TypeOf(startIndex) /= "Number" \/ TypeOf(endIndex) /= "Number "
  THEN At(arr, u)
  ELSE IF \E i \in 0..9 : /\ NumOf(i) \in {startIndex, endIndex}
                          /\ i >= Len(arr)
  THEN Arr
  ELSE At(arr, u + (CHOOSE i \in 0..9 : NumOf(i) = endIndex))

random(kd, st, startIndex, endIndex, u) ==
  ColGet(kd, st, randomKey(kd, st, startIndex, endIndex, u))

\* for (let k of keys) this.delete(k)
RECURSIVE DeleteEach(_, _, _)
DeleteEach(kd, st, keys) ==
  IF keys = << >> THEN st
  ELSE DeleteEach(kd, ColDelete(kd, st, Head(keys)).st, Tail(keys))

deleteAt(kd, st, index) ==
  LET key == keyAt(kd, st, index)
  IN IF ~Truthy(key) THEN [ret |-> Null, st |-> st] ELSE ColDelete(kd, st, key)

\* the body shared by deleteFirst and deleteLast, keys being what firstKey
\* or lastKey returned
DeleteResolved(kd, st, keys) ==
  IF ~keys.arr /\ ~Truthy(keys.one) THEN [ret |-> Null, st |-> st]
  ELSE IF ~keys.arr THEN [ret |-> Self, st |-> ColDelete(kd, st, keys.one).st]
  ELSE [ret |-> Self, st |-> DeleteEach(kd, st, keys.many)]

deleteFirst(kd, st, given, index) ==
  DeleteResolved(kd, st, firstKey(kd, st, given, index))

deleteLast(kd, st, given, index) ==
  DeleteResolved(kd, st, lastKey(kd, st, given, index))

deleteRange(kd, st, start, end) ==
  [ret |-> Self, st |-> DeleteEach(kd, st, Slice(ColKeys(kd, st), start, end))]

\* ------------------------------------------------------------------------
\* Construction, clone, concat, equal

\* Object.assign(target, src): every own enumerable property, in key order
RECURSIVE ObjectAssign(_, _)
ObjectAssign(target, src) ==
  IF src = << >> THEN target
  ELSE ObjectAssign(PutProp(target, Head(src).k, Head(src).v), Tail(src))

\* for (let [k, v] of data) { if (k is no symbol or string) k = inspect(k);
\*                            this.json[k] = v }
RECURSIVE jsonFill(_, _)
jsonFill(o, entries) ==
  IF entries = << >> THEN o
  ELSE LET k == IF TypeOf(Head(entries).k) \notin {"symbol", "string"}
                THEN inspect(Head(entries).k) ELSE Head(entries).k
       IN jsonFill(PutProp(o, k, Head(entries).v), Tail(entries))

\* new jsonCollection(data).json; form tells what data is: "undefined",
\* "object" (a plain object, entries its properties), "iterable" (a Map or a
\* jsonCollection, entries what it iterates) or "pairs" (an array of pairs)
jsonConstructor(form, entries) ==
  CASE form = "undefined" -> << >>
    [] form = "object" -> ObjectAssign(<< >>, entries)
    [] OTHER -> jsonFill(<< >>, entries)

\* new Map(entries): the constructor adds each pair through this.set
RECURSIVE mapFill(_, _)
mapFill(m, entries) ==
  IF entries = << >> THEN m
  ELSE mapFill(mapSet(m, Head(entries).k, Head(entries).v).st, Tail(entries))

\* new mapCollection(data), with the same forms of data
mapConstructor(form, entries) ==
  CASE form = "undefined" -> << >>
    [] form = "pairs" -> mapFill(<< >>, entries)
    [] form = "object" -> mapFill(<< >>, StringProps(entries))
    [] OTHER ->
      mapFill(<< >>,
              SelectSeq(entries,
                        LAMBDA e : e.k /= Null /\ TypeOf(e.k) /= "undefined"))

create(kd, form, entries) ==
  IF kd = "json" THEN jsonConstructor(form, entries)
  ELSE mapConstructor(form, entries)

\* a clone of the collection whose store st lives in cell own: the new
\* collection's store is built in the cell fresh
cloneShared(kd, st, own, fresh) == [at |-> own, st |-> st]

clone(kd, st, own, fresh) ==
  [at |-> fresh,
   st |-> IF kd = "json" THEN create(kd, "object", st)
          ELSE create(kd, "iterable", st)]

\* for (let [k, v] of coll) newColl.set(k, v), a jsonCollection inspecting
\* every key that is no string or symbol first
RECURSIVE ConcatOne(_, _, _)
ConcatOne(kd, acc, it) ==
  IF it = << >> THEN acc
  ELSE LET k == IF kd = "json" /\ TypeOf(Head(it).k) \notin {"string", "symbol"}
                THEN inspect(Head(it).k) ELSE Head(it).k
       IN ConcatOne(kd, ColSet(kd, acc, k, Head(it).v).st, Tail(it))

RECURSIVE ConcatAll(_, _, _)
ConcatAll(kd, acc, args) ==
  IF args = << >> THEN acc
  ELSE ConcatAll(kd,
                 ConcatOne(kd, acc, ColIterator(Head(args).kd, Head(args).st)),
                 Tail(args))

\* this.concat(...args), each argument a record [kd, st]; a mapCollection is
\* a Map, a jsonCollection is not
concat(kd, st, own, fresh, args) ==
  LET newColl == clone(kd, st, own, fresh)
  IN IF kd = "map" /\ \E i \in 1..Len(args) : args[i].kd /= "map"
     THEN [ret |-> ThrowTypeError, at |-> newColl.at, st |-> newColl.st]
     ELSE [ret |-> Self, at |-> newColl.at,
           st |-> ConcatAll(kd, newColl.st, args)]

\* the loop of equal: the first entry other lacks, or holds with another
\* value, ends it with false
\* A plain object (kind "object", ost its properties) has no method has: the
\* call collection.has(key) raises a TypeError.
RECURSIVE EqualLoop(_, _, _)
EqualLoop(it, okd, ost) ==
  IF it = << >> THEN True
  ELSE IF okd = "object" THEN ThrowTypeError
  ELSE LET h == ColHas(okd, ost, Head(it).k) IN
    IF h = ThrowTypeError THEN ThrowTypeError
    ELSE IF h /= True \/ Head(it).v /= ColGet(okd, ost, Head(it).k) THEN False
    ELSE EqualLoop(Tail(it), okd, ost)

\* collection.size of the argument of equal
SizeOf(okd, ost) ==
  IF okd = "object" THEN GetProp(ost, Str("size"))
  ELSE NumOf(ColSize(okd, ost))

\* this.equal(other); same tells that other is the receiver itself.  The
\* test !collection instanceof this.constructor is (!collection) instanceof
\* ..., false for every collection that came this far, and returns nothing.
equal(kd, st, okd, ost, same) ==
  IF same THEN True
  ELSE IF NumOf(ColSize(kd, st)) /= SizeOf(okd, ost) THEN False
  ELSE EqualLoop(ColIterator(kd, st), okd, ost)

\* the loop of filter: for (let [k, v] of this) if (fn(v, k, this)) col.set(k, v)
RECURSIVE FilterLoop(_, _, _, _)
FilterLoop(kd, col, it, fn) ==
  IF it = << >> THEN col
  ELSE FilterLoop(kd,
                  IF Apply(fn, Head(it).v, Head(it).k)
                  THEN ColSet(kd, col, Head(it).k, Head(it).v).st ELSE col,
                  Tail(it), fn)

\* this.filter(fn) with a function fn: col is created in the cell fresh, but
\* a receiver of size 0 returns itself
filter(kd, st, own, fresh, fn) ==
  LET col == create(kd, "undefined", << >>)
  IN IF ColSize(kd, st) = 0 THEN [at |-> own, st |-> st]
     ELSE [at |-> fresh, st |-> FilterLoop(kd, col, ColIterator(kd, st), fn)]

\* slice taking the entry at end too
sliceInclusive(kd, st, start, end) ==
  create(kd, "pairs", Slice(ColEntries(kd, st), start, end + 1))

\* this.slice(start, end): a new collection made of the pairs
\* this.entries.slice(start, end)
slice(kd, st, start, end) ==
  create(kd, "pairs", Slice(ColEntries(kd, st), start, end))

\* this.reverse(): a new collection made of the pairs this.entries.reverse()
reverse(kd, st) == create(kd, "pairs", Reverse(ColEntries(kd, st)))

\* ------------------------------------------------------------------------
\* The methods that read.  What a method returns is a value (arr FALSE) or
\* an array (arr TRUE) with the elements many.

One(v) == [arr |-> FALSE, one |-> v, many |-> << >>]

Many(s) == [arr |-> TRUE, one |-> NoValue, many |-> s]

\* Array.prototype.sort() without a comparator orders the elements by their
\* text, code unit by code unit, undefined last; the texts of the model in
\* that order
TextOrder == <<"", "0", "1", "a", "b", "x", "y">>

TextRank(x) ==
  IF x = Undefined THEN Len(TextOrder) + 1
  ELSE CHOOSE i \in 1..Len(TextOrder) : TextOrder[i] = ToStringText(x)

RECURSIVE SortInsert(_, _)
SortInsert(s, x) ==
  IF s = << >> THEN <<x>>
  ELSE IF TextRank(Head(s)) <= TextRank(x)
  THEN <<Head(s)>> \o SortInsert(Tail(s), x)
  ELSE <<x>> \o s

RECURSIVE ArraySort(_)
ArraySort(s) ==
  IF s = << >> THEN s
  ELSE SortInsert(ArraySort(SubSeq(s, 1, Len(s) - 1)), s[Len(s)])

\* sort() and sortKeys(): the array the getter made, sorted in place
sort(kd, st) == Many(ArraySort(ColValues(kd, st)))

sortKeys(kd, st) == Many(ArraySort(ColKeys(kd, st)))

\* reverseValues() and reverseKeys(): the array the getter made, reversed in
\* place
reverseValues(kd, st) == Many(Reverse(ColValues(kd, st)))

reverseKeys(kd, st) == Many(Reverse(ColKeys(kd, st)))

at_(kd, st, index) ==
  One(IF ColSize(kd, st) = 0 THEN Null ELSE At(ColValues(kd, st), index))

\* map(fn) and mapKeys(fn): this when fn is no function
map_(kd, st, fn) ==
  LET values == ColValues(kd, st) IN
  IF fn \notin Fns THEN One(Self)
  ELSE IF ColSize(kd, st) = 0 THEN Many(<< >>)
  ELSE Many([i \in 1..Len(values) |-> Bool(Apply(fn, values[i], NumOf(i - 1)))])

mapKeys_(kd, st, fn) ==
  LET keys == ColKeys(kd, st) IN
  IF fn \notin Fns THEN One(Self)
  ELSE IF ColSize(kd, st) = 0 THEN Many(<< >>)
  ELSE Many([i \in 1..Len(keys) |-> Bool(Apply(fn, keys[i], NumOf(i - 1)))])

\* Array.prototype.reduce(fn, initialValue): fn(accumulator, element)
RECURSIVE ArrayReduce(_, _, _)
ArrayReduce(s, fn, acc) ==
  IF s = << >> THEN acc
  ELSE ArrayReduce(Tail(s), fn, Bool(Apply(fn, acc, Head(s))))

reduce(kd, st, fn, initialValue) ==
  IF fn \notin Fns THEN One(Null)
  ELSE One(ArrayReduce(ColValues(kd, st), fn, initialValue))

\* filterKeys(fn) and filterEntries(fn) push onto a new array
filterKeys(kd, st, fn) ==
  IF fn \notin Fns THEN One(ThrowTypeError)
  ELSE IF ColSize(kd, st) = 0 THEN Many(<< >>)
  ELSE Many(SeqKeys(SelectSeq(ColIterator(kd, st),
                              LAMBDA e : Apply(fn, e.v, e.k))))

filterEntries(kd, st, fn) ==
  IF fn \notin Fns THEN One(ThrowTypeError)
  ELSE IF ColSize(kd, st) = 0 THEN Many(<< >>)
  ELSE Many(SelectSeq(ColIterator(kd, st), LAMBDA e : Apply(fn, e.v, e.k)))

\* the loop of split: cols[0].set(k, v) when fn holds, else cols[1].set(k, v)
RECURSIVE SplitLoop(_, _, _, _)
SplitLoop(kd, cols, it, fn) ==
  IF it = << >> THEN cols
  ELSE LET i == IF Apply(fn, Head(it).v, Head(it).k) THEN 1 ELSE 2 IN
    SplitLoop(kd,
              [cols EXCEPT ![i] = ColSet(kd, @, Head(it).k, Head(it).v).st],
              Tail(it), fn)

\* split(fn): an array of two new collections, given by their stores
split(kd, st, fn) ==
  LET col == create(kd, "undefined", << >>) IN
  IF fn \notin Fns THEN One(ThrowTypeError)
  ELSE Many(SplitLoop(kd, <<col, col>>, ColIterator(kd, st), fn))

\* The cell an array lives in that Object.keys, Object.values,
\* Object.entries, Array.from, slice, map or an array literal have made for a
\* collection whose store lives in own: a new one, fresh.
ArrayShared(own, fresh) == own

ArrayCell(own, fresh) == fresh

\* ------------------------------------------------------------------------
\* JSON text and files

\* the object JSON.parse creates for the text {}: a new object, never the
\* object Obj the program made itself
ParsedObj == [t |-> "object", v |-> "{}", by |-> "JSON.parse"]

\* JSON.stringify leaves out a property whose value is undefined, a function
\* or a symbol
Serializable(x) == TypeOf(x) \notin {"undefined", "function", "symbol"}

\* the JSON text of a value: a string in quotes, anything else bare
JsonText(x) ==
  IF x.t = "string" THEN [quoted |-> TRUE, text |-> x.v]
  ELSE [quoted |-> FALSE, text |-> x.v]

\* the value JSON.parse makes of such a text
JsonValue(j) ==
  IF j.quoted THEN Str(j.text)
  ELSE CASE j.text = "null" -> Null
         [] j.text = "true" -> True
         [] j.text = "false" -> False
         [] j.text = "{}" -> ParsedObj
         [] OTHER -> Num(j.text)

\* the members "key": text of the JSON text of the object o
RECURSIVE JsonProps(_)
JsonProps(o) ==
  IF o = << >> THEN << >>
  ELSE (IF Head(o).k.t = "string" /\ Serializable(Head(o).v)
        THEN <<[k |-> Head(o).k.v, v |-> JsonText(Head(o).v)]>>
        ELSE << >>) \o JsonProps(Tail(o))

\* JSON.stringify(o) of a plain object: one JSON document
JSONstringify(o) == [json |-> "object", props |-> JsonProps(o)]

\* text that is no JSON
Garbage == [json |-> "invalid", props |-> << >>]

\* The content of a file is the sequence of the pieces written to it.
\* JSON.parse accepts it when it is one JSON document; empty content and
\* two documents on end are syntax errors.
ValidJSON(text) == Len(text) = 1 /\ text[1].json \in {"object", "null"}

\* the JSON text null, a document that is no object
NullText == [json |-> "null", props |-> << >>]

\* What JSON.parse returns, and what this.json holds, is a plain object,
\* given by the sequence of its properties, or a value v that is no object,
\* given as <<v>>.
NonObject(v) == <<v>>

IsObject(o) == \A i \in 1..Len(o) : "k" \in DOMAIN o[i]

RECURSIVE ParseProps(_, _)
ParseProps(o, props) ==
  IF props = << >> THEN o
  ELSE ParseProps(PutProp(o, Str(Head(props).k), JsonValue(Head(props).v)),
                  Tail(props))

\* JSON.parse(text) of accepted text: the object it creates, or null
JSONparse(text) ==
  IF text[1].json = "null" THEN NonObject(Null)
  ELSE ParseProps(<< >>, text[1].props)

jsonToJSON(o) == JSONstringify(o)

\* for (let [k, v] of this) json[k] = v
RECURSIVE mapToObject(_, _)
mapToObject(json, it) ==
  IF it = << >> THEN json
  ELSE mapToObject(PutProp(json, Head(it).k, Head(it).v), Tail(it))

mapToJSON(m) == JSONstringify(mapToObject(<< >>, m))

ColToJSON(kd, st) == IF kd = "json" THEN jsonToJSON(st) ELSE mapToJSON(st)

\* the errors of save and load besides the TypeError
PathError ==
  [t |-> "throw", v |-> "Error: The specified path must be of a json file."]
DataError ==
  [t |-> "throw",
   v |-> "Error: The file must not be empty and must have a valid json data."]
\* the error node:fs/promises rejects with
FsError == [t |-> "throw", v |-> "Error: ENOENT or EACCES"]

\* path.endsWith(".json"), on the paths of the model
EndsWithJson(s) == s \in {"a.json", "/b.json", "/cwd/a.json"}

\* the validation without the check of the extension
ValidatePathStringOnly(path) ==
  IF TypeOf(path) /= "string" THEN ThrowTypeError ELSE NoValue

\* the first two statements of save and of load: the error thrown, NoValue
\* when the path passes
ValidatePath(path) ==
  IF TypeOf(path) /= "string" THEN ThrowTypeError
  ELSE IF ~EndsWithJson(path.v) THEN PathError
  ELSE NoValue

\* the third statement, process.cwd() being "/cwd": a path that does not
\* start with it is appended to it, after a second "/" when it starts with
\* one
ResolvePath(s) ==
  CASE s = "a.json" -> "/cwda.json"
    [] s = "/b.json" -> "/cwd//b.json"
    [] OTHER -> s

FileNames == {"/cwda.json", "/cwd//b.json"}

\* a file: whether it exists and the pieces of its content
NoFile == [exists |-> FALSE, text |-> << >>]

File(text) == [exists |-> TRUE, text |-> text]

NoFiles == [f \in FileNames |-> NoFile]

\* fs.writeFile and fs.appendFile; either creates a missing file
writeFile(file, data) == File(<<data>>)

\* an append that truncates the file first
appendTruncating(file, data) == File(<<data>>)

appendFile(file, data) == File(file.text \o <<data>>)

\* the part of load after JSON.parse: the store once data is installed
RECURSIVE LoadEach(_, _, _)
LoadEach(kd, st, props) ==
  IF props = << >> THEN st
  ELSE LoadEach(kd, ColSet(kd, st, Head(props).k, Head(props).v).st,
                Tail(props))

\* for (let d in data): the enumerable string properties of an object, and
\* nothing of null
ForIn(data) == IF IsObject(data) THEN StringProps(data) ELSE << >>

\* load without the installation of the data after the clear
loadInstallCleared(kd, st, data, overwrite) ==
  IF overwrite THEN << >> ELSE LoadEach(kd, st, ForIn(data))

\* load merging without replacing the entries the collection already has
loadInstallKeep(kd, st, data, overwrite) ==
  IF overwrite THEN LoadEach(kd, << >>, ForIn(data))
  ELSE LoadEach(kd, st,
                SelectSeq(ForIn(data),
                          LAMBDA e : ColHas(kd, st, e.k) /= True))

loadInstall(kd, st, data, overwrite) ==
  IF kd = "json"
  THEN IF overwrite THEN data ELSE LoadEach(kd, st, ForIn(data))
  ELSE LoadEach(kd, IF overwrite THEN clear(kd, st).st ELSE st, ForIn(data))

\* ------------------------------------------------------------------------
\* The state: three collection variables c, c2, c3 of a program using the
\* library.  kind[x] is the class of the collection x holds ("none": x holds
\* nothing), ref[x] the cell holding its store, heap[r] the store in cell r,
\* and last the latest call with what it returned.

Cols == {"c", "c2", "c3"}

Kinds == {"json", "map"}

Values == {Str("x"), Str("y")}

\* the keys of the calls: strings, a number that inspects to one of them,
\* undefined, a plain object, a symbol and a function
Keys == {Str("a"), Str("1"), Num("1"), Undefined, Obj, Sym, Fn}

\* the keys of the runs that delete by position, falsy ones among them
IndexKeys == {Str("a"), Str("1"), Str(""), Num("0"), Sym}

Store(x) == heap[ref[x]]

\* The calls of save and load in flight, one in each slot of task.  A call
\* runs to its first await (pc "io"), the file system does its part (pc
\* "resume"), and the rest of the function runs and settles the promise (pc
\* "done").  out tells how the call came out: "reject" or "resolve" of the
\* promise it returned, "throw" for an exception out of the call itself.
Tasks == {"t1", "t2"}

Outcome(how, v) == [how |-> how, v |-> v]

NoOutcome == Outcome("none", NoValue)

IdleTask ==
  [op |-> "none", col |-> "c", path |-> NoValue, ow |-> FALSE, pc |-> "idle",
   data |-> << >>, err |-> NoValue, out |-> NoOutcome, later |-> FALSE]

NoTasks == [t \in Tasks |-> IdleTask]

\* The event loop hands the completions of the file system to the functions
\* that await them in the order in which the I/O completed: later tells that
\* the I/O of a call completed after the latest I/O of the call in the other
\* slot, and a call resumes only when no earlier completion waits.
Other(t) == CHOOSE u \in Tasks : u /= t

\* an event loop that hands the completions over in any order
AnyOrder(t) == TRUE

InOrder(t) == ~(task[t].later /\ task[Other(t)].pc = "resume")

\* the promise an async function returns
Promise(t) == [t |-> "promise", v |-> t]

\* a call op on the collection col (or on "both", c and c2 alike), with its
\* key, value and number arguments and what it returned; ret2 is what c2
\* returned to a call on both, args the collections handed to concat
Call(op, col, key, val, ret, n) ==
  [op |-> op, col |-> col, key |-> key, val |-> val, ret |-> ret, n |-> n,
   m |-> 0, ret2 |-> NoValue, args |-> << >>]

NoCall == Call("none", "c", NoValue, NoValue, NoValue, 0)

\* new jsonCollection() or new mapCollection() in c, nothing in c2 and c3
Init ==
  /\ \E kd \in Kinds : kind = [x \in Cols |-> IF x = "c" THEN kd ELSE "none"]
  /\ ref = [x \in Cols |-> x]
  /\ heap = [r \in Cols |-> << >>]
  /\ last = NoCall
  /\ files = NoFiles
  /\ task = NoTasks

\* the heap once the store of x has become st
Write(x, st) == [heap EXCEPT ![ref[x]] = st]

Set(x, key, value) ==
  LET r == ColSet(kind[x], Store(x), key, value) IN
  /\ kind[x] /= "none"
  /\ Len(r.st) <= MaxSize
  /\ heap' = Write(x, r.st)
  /\ last' = Call("set", x, key, value, r.ret, 0)
  /\ UNCHANGED <<kind, ref, files, task>>

Get(x, key) ==
  /\ kind[x] /= "none"
  /\ last' = Call("get", x, key, NoValue, ColGet(kind[x], Store(x), key), 0)
  /\ UNCHANGED <<kind, ref, heap, files, task>>

Has(x, key) ==
  /\ kind[x] /= "none"
  /\ last' = Call("has", x, key, NoValue, ColHas(kind[x], Store(x), key), 0)
  /\ UNCHANGED <<kind, ref, heap, files, task>>

Delete(x, key) ==
  LET r == ColDelete(kind[x], Store(x), key) IN
  /\ kind[x] /= "none"
  /\ heap' = Write(x, r.st)
  /\ last' = Call("delete", x, key, NoValue, r.ret, 0)
  /\ UNCHANGED <<kind, ref, files, task>>

Clear(x) ==
  LET r == clear(kind[x], Store(x)) IN
  /\ kind[x] /= "none"
  /\ heap' = Write(x, r.st)
  /\ last' = Call("clear", x, NoValue, NoValue, r.ret, 0)
  /\ UNCHANGED <<kind, ref, files, task>>

Sweep(x, fn) ==
  LET r == sweep(kind[x], Store(x), fn) IN
  /\ kind[x] /= "none"
  /\ heap' = Write(x, r.st)
  /\ last' = Call("sweep", x, Str(fn), NoValue, r.ret, 0)
  /\ UNCHANGED <<kind, ref, files, task>>

DeleteAt(x, index) ==
  LET r == deleteAt(kind[x], Store(x), index) IN
  /\ kind[x] /= "none"
  /\ heap' = Write(x, r.st)
  /\ last' = Call("deleteAt", x, NoValue, NoValue, r.ret, index)
  /\ UNCHANGED <<kind, ref, files, task>>

DeleteFirst(x, given, index) ==
  LET r == deleteFirst(kind[x], Store(x), given, index) IN
  /\ kind[x] /= "none"
  /\ heap' = Write(x, r.st)
  /\ last' = Call("deleteFirst", x, Bool(given), NoValue, r.ret, index)
  /\ UNCHANGED <<kind, ref, files, task>>

DeleteLast(x, given, index) ==
  LET r == deleteLast(kind[x], Store(x), given, index) IN
  /\ kind[x] /= "none"
  /\ heap' = Write(x, r.st)
  /\ last' = Call("deleteLast", x, Bool(given), NoValue, r.ret, index)
  /\ UNCHANGED <<kind, ref, files, task>>

DeleteRange(x, start, end) ==
  LET r == deleteRange(kind[x], Store(x), start, end) IN
  /\ kind[x] /= "none"
  /\ heap' = Write(x, r.st)
  /\ last' = Call("deleteRange", x, NumOf(start), NoValue, r.ret, end)
  /\ UNCHANGED <<kind, ref, files, task>>

\* the calls of a program on the collection x, the keys drawn from K
Mutate(x, K) ==
  \/ \E key \in K, value \in Values : Set(x, key, value)
  \/ \E key \in K : Delete(x, key)
  \/ Clear(x)
  \/ \E fn \in Fns : Sweep(x, fn)

Read(x, K) ==
  \/ \E key \in K : Get(x, key)
  \/ \E key \in K : Has(x, key)

ByIndex(x) ==
  \/ \E index \in (0 - MaxSize)..MaxSize : DeleteAt(x, index)
  \/ DeleteFirst(x, FALSE, 0)
  \/ \E index \in 2..(MaxSize + 1) : DeleteFirst(x, TRUE, index)
  \/ DeleteLast(x, FALSE, 0)
  \/ \E index \in 2..(MaxSize + 1) : DeleteLast(x, TRUE, index)
  \/ \E start \in 0..MaxSize, end \in 1..MaxSize :
       start < end /\ DeleteRange(x, start, end)

\* one collection under every primitive call
Next ==
  \/ Mutate("c", Keys)
  \/ Read("c", Keys)

Spec == Init /\ [][Next]_vars

\* one collection under the mutating calls and the deletions by position
NextIndex ==
  \/ Mutate("c", IndexKeys)
  \/ ByIndex("c")

SpecIndex == Init /\ [][NextIndex]_vars

\* what a read by position returned: the value r.one, or the array r.many
\* (ret is then Arr and args holds the elements)
Returned(op, x, given, index, r) ==
  /\ kind[x] /= "none"
  /\ last' = [Call(op, x, Bool(given), NoValue,
                   IF r.arr THEN Arr ELSE r.one, index) EXCEPT !.args = r.many]
  /\ UNCHANGED <<kind, ref, heap, files, task>>

FirstKey(x, given, index) ==
  Returned("firstKey", x, given, index,
           firstKey(kind[x], Store(x), given, index))

LastKey(x, given, index) ==
  Returned("lastKey", x, given, index,
           lastKey(kind[x], Store(x), given, index))

First(x, given, index) ==
  Returned("first", x, given, index, first(kind[x], Store(x), given, index))

Last(x, given, index) ==
  Returned("last", x, given, index, last_(kind[x], Store(x), given, index))

\* one collection under set and delete and the reads from either end
NextEnds ==
  \/ \E key \in IndexKeys, value \in Values : Set("c", key, value)
  \/ \E key \in IndexKeys : Delete("c", key)
  \/ FirstKey("c", FALSE, 0)
  \/ \E index \in 2..(MaxSize + 1) : FirstKey("c", TRUE, index)
  \/ LastKey("c", FALSE, 0)
  \/ \E index \in 2..(MaxSize + 1) : LastKey("c", TRUE, index)
  \/ First("c", FALSE, 0)
  \/ \E index \in 2..(MaxSize + 1) : First("c", TRUE, index)
  \/ Last("c", FALSE, 0)
  \/ \E index \in 2..(MaxSize + 1) : Last("c", TRUE, index)

SpecEnds == Init /\ [][NextEnds]_vars

\* x.randomKey(lo, hi) and x.random(lo, hi), or x.randomKey() and x.random()
\* when given is FALSE; u is the random draw, below the number of keys
RandomKey(x, given, lo, hi, u) ==
  LET a == IF given THEN NumOf(lo) ELSE Undefined
      b == IF given THEN NumOf(hi) ELSE Undefined IN
  /\ kind[x] /= "none"
  /\ u = 0 \/ u < ColSize(kind[x], Store(x))
  /\ last' = [Call("randomKey", x, Bool(given), NoValue,
                   randomKey(kind[x], Store(x), a, b, u), lo) EXCEPT !.m = hi]
  /\ UNCHANGED <<kind, ref, heap, files, task>>

Random(x, given, lo, hi, u) ==
  LET a == IF given THEN NumOf(lo) ELSE Undefined
      b == IF given THEN NumOf(hi) ELSE Undefined IN
  /\ kind[x] /= "none"
  /\ u = 0 \/ u < ColSize(kind[x], Store(x))
  /\ last' = [Call("random", x, Bool(given), NoValue,
                   random(kind[x], Store(x), a, b, u), lo) EXCEPT !.m = hi]
  /\ UNCHANGED <<kind, ref, heap, files, task>>

\* one collection under set and delete and the random reads
NextRandom ==
  \/ \E key \in IndexKeys, value \in Values : Set("c", key, value)
  \/ \E key \in IndexKeys : Delete("c", key)
  \/ \E u \in 0..(MaxSize - 1) : RandomKey("c", FALSE, 0, 0, u)
  \/ \E lo \in 0..(MaxSize - 1), hi \in 0..(MaxSize - 1), u \in 0..(MaxSize - 1) :
       lo <= hi /\ RandomKey("c", TRUE, lo, hi, u)
  \/ \E u \in 0..(MaxSize - 1) : Random("c", FALSE, 0, 0, u)
  \/ \E lo \in 0..(MaxSize - 1), hi \in 0..(MaxSize - 1), u \in 0..(MaxSize - 1) :
       lo <= hi /\ Random("c", TRUE, lo, hi, u)

SpecRandom == Init /\ [][NextRandom]_vars

\* ------------------------------------------------------------------------
\* A jsonCollection c and a mapCollection c2 given the same calls

PairKeys == {Str("a"), Str("b"), Str("1")}

InitPair ==
  /\ kind = [x \in Cols |-> CASE x = "c" -> "json" [] x = "c2" -> "map"
                              [] OTHER -> "none"]
  /\ ref = [x \in Cols |-> x]
  /\ heap = [r \in Cols |-> << >>]
  /\ last = NoCall
  /\ files = NoFiles
  /\ task = NoTasks

PairSet(key, value) ==
  LET r == jsonSet(Store("c"), key, value)
      r2 == mapSet(Store("c2"), key, value) IN
  /\ Len(r.st) <= MaxSize /\ Len(r2.st) <= MaxSize
  /\ heap' = [heap EXCEPT ![ref["c"]] = r.st, ![ref["c2"]] = r2.st]
  /\ last' = [Call("set", "both", key, value, r.ret, 0) EXCEPT !.ret2 = r2.ret]
  /\ UNCHANGED <<kind, ref, files, task>>

PairGet(key) ==
  /\ last' = [Call("get", "both", key, NoValue, jsonGet(Store("c"), key), 0)
                EXCEPT !.ret2 = mapGet(Store("c2"), key)]
  /\ UNCHANGED <<kind, ref, heap, files, task>>

PairHas(key) ==
  /\ last' = [Call("has", "both", key, NoValue, jsonHas(Store("c"), key), 0)
                EXCEPT !.ret2 = mapHas(Store("c2"), key)]
  /\ UNCHANGED <<kind, ref, heap, files, task>>

PairDelete(key) ==
  LET r == jsonDelete(Store("c"), key)
      r2 == mapDelete(Store("c2"), key) IN
  /\ heap' = [heap EXCEPT ![ref["c"]] = r.st, ![ref["c2"]] = r2.st]
  /\ last' = [Call("delete", "both", key, NoValue, r.ret, 0) EXCEPT !.ret2 = r2.ret]
  /\ UNCHANGED <<kind, ref, files, task>>

PairClear ==
  LET r == clear("json", Store("c"))
      r2 == clear("map", Store("c2")) IN
  /\ heap' = [heap EXCEPT ![ref["c"]] = r.st, ![ref["c2"]] = r2.st]
  /\ last' = [Call("clear", "both", NoValue, NoValue, r.ret, 0) EXCEPT !.ret2 = r2.ret]
  /\ UNCHANGED <<kind, ref, files, task>>

NextPair ==
  \/ \E key \in PairKeys, value \in Values : PairSet(key, value)
  \/ \E key \in PairKeys : PairGet(key)
  \/ \E key \in PairKeys : PairHas(key)
  \/ \E key \in PairKeys : PairDelete(key)
  \/ PairClear

SpecPair == InitPair /\ [][NextPair]_vars

\* ------------------------------------------------------------------------
\* A collection c and its clone c2

CloneKeys == {Str("a"), Null, Undefined}

\* y = x.clone()
Clone(x, y) ==
  LET r == clone(kind[x], Store(x), ref[x], y) IN
  /\ kind[x] /= "none"
  /\ kind' = [kind EXCEPT ![y] = kind[x]]
  /\ ref' = [ref EXCEPT ![y] = r.at]
  /\ heap' = [heap EXCEPT ![r.at] = r.st]
  /\ last' = Call("clone", x, NoValue, NoValue, Self, 0)
  /\ UNCHANGED <<files, task>>

\* x.equal(y)
Equal(x, y) ==
  /\ kind[x] /= "none" /\ kind[y] /= "none"
  /\ last' = [Call("equal", x, NoValue, NoValue,
                   equal(kind[x], Store(x), kind[y], Store(y), x = y), 0)
                EXCEPT !.args = <<y>>]
  /\ UNCHANGED <<kind, ref, heap, files, task>>

\* x.equal(o) for a plain object o; val tells the size property of o
EqualPlain(x, o) ==
  /\ kind[x] /= "none"
  /\ last' = Call("equal", x, Obj, GetProp(o, Str("size")),
                  equal(kind[x], Store(x), "object", o, FALSE), 0)
  /\ UNCHANGED <<kind, ref, heap, files, task>>

NextClone ==
  \/ Mutate("c", CloneKeys)
  \/ Clone("c", "c2")
  \/ Mutate("c2", CloneKeys)
  \/ Equal("c", "c2")

SpecClone == Init /\ [][NextClone]_vars

\* ------------------------------------------------------------------------
\* Two collections c and c2 of any two kinds, and c3 = c.concat(...)

ConcatKeys == {Str("a"), Num("1"), Null}

InitConcat ==
  /\ \E kd \in Kinds, kd2 \in Kinds :
       kind = [x \in Cols |-> CASE x = "c" -> kd [] x = "c2" -> kd2
                                [] OTHER -> "none"]
  /\ ref = [x \in Cols |-> x]
  /\ heap = [r \in Cols |-> << >>]
  /\ last = NoCall
  /\ files = NoFiles
  /\ task = NoTasks

\* the keys of the runs of equal: a string and a number that inspect alike
EqualKeys == {Str("a"), Str("1"), Num("1")}

\* {}, {size: 0}, {size: 1}, ...
PlainObjects ==
  {<< >>} \cup {<<Entry(Str("size"), NumOf(n))>> : n \in 0..MaxSize}

\* two collections of any two kinds compared with each other, with
\* themselves and with plain objects
NextEqual ==
  \/ \E x \in {"c", "c2"}, key \in EqualKeys, value \in Values :
       Set(x, key, value)
  \/ \E x \in {"c", "c2"}, key \in EqualKeys : Delete(x, key)
  \/ \E x \in {"c", "c2"}, y \in {"c", "c2"} : Equal(x, y)
  \/ \E o \in PlainObjects : EqualPlain("c", o)

SpecEqual == InitConcat /\ [][NextEqual]_vars

\* the arguments of a call of concat
ArgLists == {<<"c2">>, <<"c2", "c">>}

\* the argument list as concat receives it
RECURSIVE Collections(_)
Collections(names) ==
  IF names = << >> THEN << >>
  ELSE <<[kd |-> kind[Head(names)], st |-> Store(Head(names))]>>
         \o Collections(Tail(names))

\* y = x.concat(...names); y is bound only when concat returns
Concat(x, names, y) ==
  LET r == concat(kind[x], Store(x), ref[x], y, Collections(names)) IN
  /\ kind[x] /= "none" /\ kind[y] = "none"
  /\ kind' = [kind EXCEPT ![y] = IF r.ret = Self THEN kind[x] ELSE "none"]
  /\ ref' = [ref EXCEPT ![y] = IF r.ret = Self THEN r.at ELSE y]
  /\ heap' = IF r.ret = Self THEN [heap EXCEPT ![r.at] = r.st] ELSE heap
  /\ last' = [Call("concat", x, NoValue, NoValue, r.ret, 0) EXCEPT !.args = names]
  /\ UNCHANGED <<files, task>>

\* the program lets go of the collection in y
Release(y) ==
  /\ kind[y] /= "none"
  /\ kind' = [kind EXCEPT ![y] = "none"]
  /\ ref' = [ref EXCEPT ![y] = y]
  /\ heap' = [heap EXCEPT ![y] = << >>]
  /\ last' = Call("release", y, NoValue, NoValue, NoValue, 0)
  /\ UNCHANGED <<files, task>>

NextConcat ==
  \/ kind["c3"] = "none" /\ Mutate("c", ConcatKeys)
  \/ kind["c3"] = "none" /\ Mutate("c2", ConcatKeys)
  \/ \E names \in ArgLists : Concat("c", names, "c3")
  \/ Release("c3")

SpecConcat == InitConcat /\ [][NextConcat]_vars

\* ------------------------------------------------------------------------
\* save and load

\* an exception that leaves the call, as thrown by a function that is not
\* async
syncThrow(e) == Outcome("throw", e)

\* an exception thrown in the body of an async function rejects its promise
asyncThrow(e) == Outcome("reject", e)

\* x.save(path, overwrite) up to its await: the path is validated, then
\* this.toJSON() is evaluated and handed to fs.writeFile or fs.appendFile
SaveCall(t, x, path, overwrite) ==
  LET e == ValidatePath(path)
      call == [IdleTask EXCEPT !.op = "save", !.col = x, !.path = path,
                               !.ow = overwrite] IN
  /\ kind[x] /= "none"
  /\ task[t].pc \in {"idle", "done"}
  /\ task' = [task EXCEPT ![t] =
       IF e /= NoValue THEN [call EXCEPT !.pc = "done", !.out = asyncThrow(e)]
       ELSE [call EXCEPT !.pc = "io",
                         !.data = <<ColToJSON(kind[x], Store(x))>>]]
  /\ last' = Call("save", x, NoValue, NoValue, Promise(t), 0)
  /\ UNCHANGED <<kind, ref, heap, files>>

\* a file system that is handed the collection and serializes it when it
\* writes
FsWriteLive(t, ok) ==
  LET f == ResolvePath(task[t].path.v)
      x == task[t].col
      data == ColToJSON(kind[x], Store(x)) IN
  /\ task[t].op = "save" /\ task[t].pc = "io"
  /\ (ok /\ ~task[t].ow) => Len(files[f].text) < MaxPieces
  /\ files' = IF ~ok THEN files
              ELSE [files EXCEPT ![f] =
                      IF task[t].ow THEN writeFile(@, data)
                      ELSE appendFile(@, data)]
  /\ task' = [task EXCEPT ![t].pc = "resume", ![t].later = TRUE,
                          ![Other(t)].later = FALSE,
                          ![t].err = IF ok THEN NoValue ELSE FsError]
  /\ UNCHANGED <<kind, ref, heap, last>>

\* the file system writes or appends what save handed over, or fails
FsWrite(t, ok) ==
  LET f == ResolvePath(task[t].path.v) IN
  /\ task[t].op = "save" /\ task[t].pc = "io"
  /\ (ok /\ ~task[t].ow) => Len(files[f].text) < MaxPieces
  /\ files' = IF ~ok THEN files
              ELSE [files EXCEPT ![f] =
                      IF task[t].ow THEN writeFile(@, task[t].data[1])
                      ELSE appendFile(@, task[t].data[1])]
  /\ task' = [task EXCEPT ![t].pc = "resume", ![t].later = TRUE,
                          ![Other(t)].later = FALSE,
                          ![t].err = IF ok THEN NoValue ELSE FsError]
  /\ UNCHANGED <<kind, ref, heap, last>>

\* save after its await: if (err) throw err; res = true only in the branch
\* of overwrite; return Promise.resolve(res)
SaveResume(t) ==
  /\ task[t].op = "save" /\ task[t].pc = "resume"
  /\ InOrder(t)
  /\ task' = [task EXCEPT ![t].pc = "done", ![t].data = << >>,
                          ![t].err = NoValue,
                          ![t].out =
       IF task[t].err /= NoValue THEN asyncThrow(task[t].err)
       ELSE Outcome("resolve", IF task[t].ow THEN True ELSE Undefined)]
  /\ UNCHANGED <<kind, ref, heap, last, files>>

\* x.load(path, overwrite) up to its await on fs.readFile
LoadCall(t, x, path, overwrite) ==
  LET e == ValidatePath(path)
      call == [IdleTask EXCEPT !.op = "load", !.col = x, !.path = path,
                               !.ow = overwrite] IN
  /\ kind[x] /= "none"
  /\ task[t].pc \in {"idle", "done"}
  /\ task' = [task EXCEPT ![t] =
       IF e /= NoValue THEN [call EXCEPT !.pc = "done", !.out = asyncThrow(e)]
       ELSE [call EXCEPT !.pc = "io"]]
  /\ last' = Call("load", x, NoValue, NoValue, Promise(t), 0)
  /\ UNCHANGED <<kind, ref, heap, files>>

\* the file system reads the file, or fails; a missing file cannot be read
FsRead(t, ok) ==
  LET f == ResolvePath(task[t].path.v) IN
  /\ task[t].op = "load" /\ task[t].pc = "io"
  /\ ok => files[f].exists
  /\ task' = [task EXCEPT ![t].pc = "resume", ![t].later = TRUE,
                          ![Other(t)].later = FALSE,
                          ![t].data = IF ok THEN files[f].text ELSE << >>,
                          ![t].err = IF ok THEN NoValue ELSE FsError]
  /\ UNCHANGED <<kind, ref, heap, last, files>>

\* load clearing the collection before it parses the data
LoadResumeClearFirst(t) ==
  LET x == task[t].col
      cleared == IF task[t].ow THEN clear(kind[x], Store(x)).st ELSE Store(x) IN
  /\ task[t].op = "load" /\ task[t].pc = "resume"
  /\ InOrder(t)
  /\ task' = [task EXCEPT ![t].pc = "done", ![t].data = << >>,
                          ![t].err = NoValue,
                          ![t].out =
       IF task[t].err /= NoValue THEN asyncThrow(task[t].err)
       ELSE IF ~ValidJSON(task[t].data) THEN asyncThrow(DataError)
       ELSE Outcome("resolve", Self)]
  /\ heap' = IF task[t].err /= NoValue THEN heap
             ELSE IF ~ValidJSON(task[t].data) THEN Write(x, cleared)
             ELSE Write(x, loadInstall(kind[x], Store(x),
                                       JSONparse(task[t].data), task[t].ow))
  /\ UNCHANGED <<kind, ref, last, files>>

\* load after its await: if (err) throw err; JSON.parse or the data error;
\* then the data goes into the collection and the promise resolves to this
LoadResume(t) ==
  LET x == task[t].col
      failed == task[t].err /= NoValue \/ ~ValidJSON(task[t].data) IN
  /\ task[t].op = "load" /\ task[t].pc = "resume"
  /\ InOrder(t)
  /\ task' = [task EXCEPT ![t].pc = "done", ![t].data = << >>,
                          ![t].err = NoValue,
                          ![t].out =
       IF task[t].err /= NoValue THEN asyncThrow(task[t].err)
       ELSE IF ~ValidJSON(task[t].data) THEN asyncThrow(DataError)
       ELSE Outcome("resolve", Self)]
  /\ heap' = IF failed THEN heap
             ELSE Write(x, loadInstall(kind[x], Store(x),
                                       JSONparse(task[t].data), task[t].ow))
  /\ UNCHANGED <<kind, ref, last, files>>

\* y = new jsonCollection() or new mapCollection(), of the class of c
Construct(y) ==
  /\ kind["c"] /= "none"
  /\ kind' = [kind EXCEPT ![y] = kind["c"]]
  /\ ref' = [ref EXCEPT ![y] = y]
  /\ heap' = [heap EXCEPT ![y] = create(kind["c"], "undefined", << >>)]
  /\ last' = Call("new", y, NoValue, NoValue, Self, 0)
  /\ UNCHANGED <<files, task>>

\* the call in slot t has settled, or none was made
Awaited(t) == task[t].pc \in {"idle", "done"}

\* the calls of save on x through the slot t, and their steps
Saves(t, x, P, OW) ==
  \/ \E path \in P, overwrite \in OW : SaveCall(t, x, path, overwrite)
  \/ \E ok \in BOOLEAN : FsWrite(t, ok)
  \/ SaveResume(t)

\* the calls of load on x through the slot t, and their steps
Loads(t, x, P, OW) ==
  \/ \E path \in P, overwrite \in OW : LoadCall(t, x, path, overwrite)
  \/ \E ok \in BOOLEAN : FsRead(t, ok)
  \/ LoadResume(t)

\* One collection that is changed, saved and loaded, over one file and
\* bad paths
IoKeys == {Str("a"), Str("b")}

IoPaths == {Str("a.json"), Str("a.txt"), Num("1")}

\* what the file holds at the start: nothing (no file), no content, or
\* text that is no JSON
Fixtures == {NoFile, File(<< >>), File(<<Garbage>>)}

InitIO ==
  /\ \E kd \in Kinds : kind = [x \in Cols |-> IF x = "c" THEN kd ELSE "none"]
  /\ ref = [x \in Cols |-> x]
  /\ heap = [r \in Cols |-> << >>]
  /\ last = NoCall
  /\ \E file \in Fixtures : files = [NoFiles EXCEPT !["/cwda.json"] = file]
  /\ task = NoTasks

NextIO ==
  \/ \E key \in IoKeys : Set("c", key, Str("x"))
  \/ \E key \in IoKeys : Delete("c", key)
  \/ Saves("t1", "c", IoPaths, BOOLEAN)
  \/ Loads("t1", "c", IoPaths, BOOLEAN)

SpecIO == InitIO /\ [][NextIO]_vars

\* One collection that is changed by set, delete and clear, also while a
\* save of it is in flight
NextSnapshot ==
  \/ \E key \in IoKeys : Set("c", key, Str("x"))
  \/ \E key \in IoKeys : Delete("c", key)
  \/ Clear("c")
  \/ Saves("t1", "c", {Str("a.json")}, BOOLEAN)

SpecSnapshot == InitIO /\ [][NextSnapshot]_vars

\* One collection that is changed and loaded from a file that is there from
\* the start: a missing file, an empty one, text that is no JSON, two
\* documents on end, and three JSON objects
LoadKeys == {Str("a"), Str("1")}

LoadValues == {Str("x"), Str("y")}

Member(k, v) == [k |-> k, v |-> JsonText(v)]

Document(props) == [json |-> "object", props |-> props]

LoadFixtures ==
  Fixtures \cup
  { File(<<Document(<< >>), Document(<< >>)>>),
    File(<<Document(<< >>)>>),
    File(<<Document(<<Member("a", Str("y"))>>)>>),
    File(<<Document(<<Member("b", Obj), Member("1", Num("1"))>>)>> ) }

InitLoad ==
  /\ \E kd \in Kinds : kind = [x \in Cols |-> IF x = "c" THEN kd ELSE "none"]
  /\ ref = [x \in Cols |-> x]
  /\ heap = [r \in Cols |-> << >>]
  /\ last = NoCall
  /\ \E file \in LoadFixtures : files = [NoFiles EXCEPT !["/cwda.json"] = file]
  /\ task = NoTasks

NextLoad ==
  \/ \E key \in LoadKeys, value \in LoadValues : Set("c", key, value)
  \/ \E key \in LoadKeys : Delete("c", key)
  \/ Loads("t1", "c", {Str("a.json")}, BOOLEAN)

SpecLoad == InitLoad /\ [][NextLoad]_vars

\* One collection and two files that hold JSON objects; the program changes
\* the collection while no load is in flight and has up to two calls of
\* load(path, true) in flight at once
RaceDocuments ==
  { File(<<Document(<< >>)>>),
    File(<<Document(<<Member("a", Str("y"))>>)>>),
    File(<<Document(<<Member("b", Str("y")), Member("1", Num("1"))>>)>>) }

InitRace ==
  /\ \E kd \in Kinds : kind = [x \in Cols |-> IF x = "c" THEN kd ELSE "none"]
  /\ ref = [x \in Cols |-> x]
  /\ heap = [r \in Cols |-> << >>]
  /\ last = NoCall
  /\ \E one \in RaceDocuments, two \in RaceDocuments :
       files = [NoFiles EXCEPT !["/cwda.json"] = one, !["/cwd//b.json"] = two]
  /\ task = NoTasks

NextRace ==
  \/ /\ \A t \in Tasks : Awaited(t)
     /\ \E key \in LoadKeys : Set("c", key, Str("x"))
  \/ \E t \in Tasks : Loads(t, "c", {Str("a.json"), Str("/b.json")}, {TRUE})

SpecRace == InitRace /\ [][NextRace]_vars

\* One collection c that is changed and read; an array a read returns is
\* held in c3 (kind "array") and changed by the program

ReadKeys == {Str("b"), Str("a"), Str("1")}

ReadOps ==
  {"keys", "values", "entries", "sort", "sortKeys", "reverseKeys",
   "reverseValues", "firstKey", "lastKey", "first", "last", "at", "keyAt",
   "map", "mapKeys", "reduce", "filterKeys", "filterEntries", "split",
   "toJSON"}

\* the read ops that take a function, and those that take a number
FnOps == {"map", "mapKeys", "reduce", "filterKeys", "filterEntries", "split"}

IndexOps == {"firstKey", "lastKey", "first", "last", "at", "keyAt"}

\* what the read op returns; an index of 0 stands for no argument of
\* firstKey, lastKey, first and last, and reduce starts from "x"
ReadResult(op, kd, st, fn, index) ==
  CASE op = "keys" -> Many(ColKeys(kd, st))
    [] op = "values" -> Many(ColValues(kd, st))
    [] op = "entries" -> Many(ColEntries(kd, st))
    [] op = "sort" -> sort(kd, st)
    [] op = "sortKeys" -> sortKeys(kd, st)
    [] op = "reverseKeys" -> reverseKeys(kd, st)
    [] op = "reverseValues" -> reverseValues(kd, st)
    [] op = "firstKey" -> firstKey(kd, st, index /= 0, index)
    [] op = "lastKey" -> lastKey(kd, st, index /= 0, index)
    [] op = "first" -> first(kd, st, index /= 0, index)
    [] op = "last" -> last_(kd, st, index /= 0, index)
    [] op = "at" -> at_(kd, st, index)
    [] op = "keyAt" -> One(keyAt(kd, st, index))
    [] op = "map" -> map_(kd, st, fn)
    [] op = "mapKeys" -> mapKeys_(kd, st, fn)
    [] op = "reduce" -> reduce(kd, st, fn, Str("x"))
    [] op = "filterKeys" -> filterKeys(kd, st, fn)
    [] op = "filterEntries" -> filterEntries(kd, st, fn)
    [] op = "split" -> split(kd, st, fn)
    [] op = "toJSON" -> One(ColToJSON(kd, st))

\* y = x.op(...): an array returned is put into its cell and held in y
ReadCall(x, op, fn, index, y) ==
  LET r == ReadResult(op, kind[x], Store(x), fn, index)
      cell == ArrayCell(ref[x], y) IN
  /\ kind[x] \in Kinds
  /\ kind' = IF r.arr THEN [kind EXCEPT ![y] = "array"] ELSE kind
  /\ ref' = IF r.arr THEN [ref EXCEPT ![y] = cell] ELSE ref
  /\ heap' = IF r.arr THEN [heap EXCEPT ![cell] = r.many] ELSE heap
  /\ last' = [Call(op, x, Str(fn), NoValue, IF r.arr THEN Arr ELSE r.one,
                   index) EXCEPT !.args = r.many]
  /\ UNCHANGED <<files, task>>

\* y.shift() on the array held in y
Shift(y) ==
  /\ kind[y] = "array" /\ Store(y) /= << >>
  /\ heap' = [heap EXCEPT ![ref[y]] = Tail(@)]
  /\ last' = Call("shift", y, NoValue, NoValue, Head(Store(y)), 0)
  /\ UNCHANGED <<kind, ref, files, task>>

NextRead ==
  \/ kind["c3"] = "none" /\ \E key \in ReadKeys, value \in Values :
                              Set("c", key, value)
  \/ kind["c3"] = "none" /\ \E key \in ReadKeys : Delete("c", key)
  \/ kind["c3"] = "none" /\
       \E op \in ReadOps, fn \in Fns \cup {"none"}, index \in (0 - 1)..(MaxSize + 1) :
         /\ (fn = "none" \/ op \in FnOps) /\ (index = 0 \/ op \in IndexOps)
         /\ ReadCall("c", op, fn, index, "c3")
  \/ Shift("c3")
  \/ Release("c3")
  \/ kind["c3"] = "none" /\ Equal("c", "c")
  \/ kind["c3"] = "none" /\ \E o \in PlainObjects : EqualPlain("c", o)

SpecRead == Init /\ [][NextRead]_vars

\* a call of size, keys, has, get, set or delete with a string key on a
\* jsonCollection whose this.json is null: Object.keys(null), the read of a
\* property of null and the assignment to one raise a TypeError
CallOnNull(x, op, key) ==
  /\ kind[x] = "json" /\ Store(x) = NonObject(Null)
  /\ last' = Call(op, x, key, NoValue, ThrowTypeError, 0)
  /\ UNCHANGED <<kind, ref, heap, files, task>>

\* One collection that is changed, read and loaded with load(path, true)
\* from a file that holds a JSON object or the JSON text null
ShapeDocuments ==
  { File(<<Document(<< >>)>>),
    File(<<Document(<<Member("a", Str("y")), Member("1", Num("1"))>>)>>),
    File(<<NullText>>) }

InitShape ==
  /\ \E kd \in Kinds : kind = [x \in Cols |-> IF x = "c" THEN kd ELSE "none"]
  /\ ref = [x \in Cols |-> x]
  /\ heap = [r \in Cols |-> << >>]
  /\ last = NoCall
  /\ \E file \in ShapeDocuments : files = [NoFiles EXCEPT !["/cwda.json"] = file]
  /\ task = NoTasks

NextShape ==
  \/ IsObject(Store("c")) /\ \E key \in LoadKeys, value \in LoadValues :
                               Set("c", key, value)
  \/ IsObject(Store("c")) /\ \E key \in LoadKeys : Delete("c", key)
  \/ IsObject(Store("c")) /\ Read("c", LoadKeys)
  \/ IsObject(Store("c")) /\ Loads("t1", "c", {Str("a.json")}, {TRUE})
  \/ \E op \in {"size", "keys", "has", "get", "set", "delete"}, key \in LoadKeys :
       CallOnNull("c", op, IF op \in {"size", "keys"} THEN NoValue ELSE key)

SpecShape == InitShape /\ [][NextShape]_vars

\* A collection c that is changed and saved and a collection c2 that is
\* constructed, loaded from the same file and compared with c; the program
\* awaits each save and load before it changes c
TripKeys == {Str("a"), Str("b")}

TripValues == {Str("x"), Obj}

NextTrip ==
  \/ Awaited("t1") /\ \E key \in TripKeys, value \in TripValues :
                        Set("c", key, value)
  \/ Awaited("t1") /\ \E key \in TripKeys : Delete("c", key)
  \/ Saves("t1", "c", {Str("a.json")}, {TRUE})
  \/ Construct("c2")
  \/ Loads("t1", "c2", {Str("a.json")}, {TRUE})
  \/ Equal("c", "c2")

SpecTrip == InitIO /\ [][NextTrip]_vars

\* ------------------------------------------------------------------------
\* A collection c and c2 = c.filter(fn)

FilterKeys == {Str("b"), Str("1"), Null}

\* y = x.filter(fn)
Filter(x, fn, y) ==
  LET r == filter(kind[x], Store(x), ref[x], y, fn) IN
  /\ kind[x] /= "none"
  /\ kind' = [kind EXCEPT ![y] = kind[x]]
  /\ ref' = [ref EXCEPT ![y] = r.at]
  /\ heap' = [heap EXCEPT ![r.at] = r.st]
  /\ last' = Call("filter", x, Str(fn), NoValue, Self, 0)
  /\ UNCHANGED <<files, task>>

NextFilter ==
  \/ Mutate("c", FilterKeys)
  \/ \E fn \in Fns : Filter("c", fn, "c2")
  \/ Mutate("c2", FilterKeys)

SpecFilter == Init /\ [][NextFilter]_vars

\* ------------------------------------------------------------------------
\* A collection c made of up to five pairs, and c2 = c.slice(start, end)

SliceKeys == {Str("a"), Str("b"), Str("1"), Str("0"), Null}

ValueOf(key) == IF key \in {Str("a"), Str("1")} THEN Str("x") ELSE Str("y")

\* the arrays of pairs given to the constructor, no key twice
PairArrays ==
  LET N == Cardinality(SliceKeys)
      KeyArrays == UNION {[1..n -> SliceKeys] : n \in 0..N}
  IN {[i \in DOMAIN ks |-> Entry(ks[i], ValueOf(ks[i]))] :
        ks \in {a \in KeyArrays : \A i, j \in DOMAIN a : a[i] = a[j] => i = j}}

Positions == 0..(Cardinality(SliceKeys) + 1)

\* c = new jsonCollection(pairs) or new mapCollection(pairs)
InitSlice ==
  /\ \E kd \in Kinds : kind = [x \in Cols |-> IF x = "c" THEN kd ELSE "none"]
  /\ ref = [x \in Cols |-> x]
  /\ \E pairs \in PairArrays :
       heap = [r \in Cols |-> IF r = "c" THEN create(kind["c"], "pairs", pairs)
                              ELSE << >>]
  /\ last = NoCall
  /\ files = NoFiles
  /\ task = NoTasks

\* y = x.slice(start, end), or y = x.slice() when given is FALSE: start is
\* then 0 and end 1
SliceCall(x, given, start, end, y) ==
  LET s == IF given THEN start ELSE 0
      e == IF given THEN end ELSE 1 IN
  /\ kind[x] /= "none"
  /\ kind' = [kind EXCEPT ![y] = kind[x]]
  /\ ref' = [ref EXCEPT ![y] = y]
  /\ heap' = [heap EXCEPT ![y] = slice(kind[x], Store(x), s, e)]
  /\ last' = [Call("slice", x, Bool(given), NoValue, Self, s) EXCEPT !.m = e]
  /\ UNCHANGED <<files, task>>

NextSlice ==
  \/ \E start \in Positions, end \in Positions :
       SliceCall("c", TRUE, start, end, "c2")
  \/ SliceCall("c", FALSE, 0, 0, "c2")

SpecSlice == InitSlice /\ [][NextSlice]_vars

\* ------------------------------------------------------------------------
\* A collection c made of up to five pairs, and c2 = c.reverse()

ReverseCall(x, y) ==
  /\ kind[x] /= "none"
  /\ kind' = [kind EXCEPT ![y] = kind[x]]
  /\ ref' = [ref EXCEPT ![y] = y]
  /\ heap' = [heap EXCEPT ![y] = reverse(kind[x], Store(x))]
  /\ last' = Call("reverse", x, NoValue, NoValue, Self, 0)
  /\ UNCHANGED <<files, task>>

NextReverse == ReverseCall("c", "c2")

SpecReverse == InitSlice /\ [][NextReverse]_vars

\* ------------------------------------------------------------------------
\* Properties of the primitive calls

\* the key an entry set under key is stored under: a jsonCollection keeps
\* strings and symbols, inspects every other key but undefined and indexes
\* this.json with the outcome; a mapCollection keeps the key
StorageKey(kd, key) ==
  IF kd = "map" THEN key
  ELSE ToPropertyKey(IF TypeOf(key) \notin {"string", "symbol", "undefined"}
                     THEN inspect(key) ELSE key)

Primitives == {"set", "get", "has", "delete"}

\* C1: in either kind, right after set(k, v) with k not a function, get(k)
\* returns v and has(k) returns true.
C1_RoundTrip ==
  (last.op = "set" /\ TypeOf(last.key) /= "function") =>
    /\ ColGet(kind[last.col], Store(last.col), last.key) = last.val
    /\ ColHas(kind[last.col], Store(last.col), last.key) = True

\* C2: in every state reached from an empty collection, size is the number
\* of distinct keys the store holds, and size, keys, values and entries all
\* have the same length.
C2_SizeInvariant ==
  \A x \in Cols : kind[x] /= "none" =>
    /\ ColSize(kind[x], Store(x)) = Cardinality(KeySet(Store(x)))
    /\ ColSize(kind[x], Store(x)) = Len(ColKeys(kind[x], Store(x)))
    /\ ColSize(kind[x], Store(x)) = Len(ColValues(kind[x], Store(x)))
    /\ ColSize(kind[x], Store(x)) = Len(ColEntries(kind[x], Store(x)))

\* C4: in either kind, get(k) of a key that has no entry returns null.
C4_GetAbsentIsNull ==
  ( /\ last.op = "get"
    /\ TypeOf(last.key) /= "function"
    /\ StorageKey(kind[last.col], last.key) \notin KeySet(Store(last.col)) )
  => last.ret = Null

\* C5: in a jsonCollection, right after set(k1, v), every key k2 (not a
\* function) with the same storage key as k1 reads v through get, is present
\* for has, overwrites the entry through set leaving size as it is, and
\* removes it through delete.
C5_SameNormalization ==
  (last.op = "set" /\ kind[last.col] = "json" /\ TypeOf(last.key) /= "function") =>
    LET o == Store(last.col) IN
    \A k2 \in Keys :
      (TypeOf(k2) /= "function" /\ StorageKey("json", k2) = StorageKey("json", last.key)) =>
        /\ jsonGet(o, k2) = last.val
        /\ jsonHas(o, k2) = True
        /\ \A w \in Values :
             /\ jsonSize(jsonSet(o, k2, w).st) = jsonSize(o)
             /\ jsonGet(jsonSet(o, k2, w).st, last.key) = w
        /\ StorageKey("json", k2) \notin KeySet(jsonDelete(o, k2).st)

\* C6: in either kind and in every state, set, get, has and delete called
\* with a function as the key throw a TypeError and leave the stores as they
\* were.
C6_FunctionKeyRejected ==
  [][ (last'.op \in Primitives /\ TypeOf(last'.key) = "function") =>
        (last'.ret = ThrowTypeError /\ heap' = heap) ]_vars

\* C6 as the code has it: in a jsonCollection, set, get and delete called
\* with a function as the key throw a TypeError in every state, has does so
\* whenever size is not 0, and the stores are left as they were.
C6_JsonFunctionKeyRejected ==
  [][ ( /\ kind[last'.col] = "json"
        /\ last'.op \in Primitives
        /\ TypeOf(last'.key) = "function"
        /\ last'.op = "has" => jsonSize(Store(last'.col)) > 0 ) =>
        (last'.ret = ThrowTypeError /\ heap' = heap) ]_vars

\* has(fn) has thrown on a jsonCollection that holds MaxSize entries
C6_Witness ==
  /\ kind[last.col] = "json"
  /\ last.op = "has" /\ last.key = Fn /\ last.ret = ThrowTypeError
  /\ jsonSize(Store(last.col)) = MaxSize

\* C7: in either kind keys, values, entries and iteration are in insertion
\* order: a set of a new key puts it last, a set of a present key and a
\* delete leave the order of the others as it was.
C7_InsertionOrder ==
  [][ (last'.op \in {"set", "delete"} /\ last'.ret /= ThrowTypeError) =>
        LET kd == kind[last'.col]
            sk == StorageKey(kd, last'.key)
            before == ColEntries(kd, Store(last'.col))
            now == heap'[ref'[last'.col]]
            after == ColEntries(kd, now)
        IN /\ SeqKeys(after) =
                IF last'.op = "delete" THEN SeqKeys(Without(before, sk))
                ELSE IF sk \in KeySet(before) THEN SeqKeys(before)
                ELSE Append(SeqKeys(before), sk)
           /\ ColKeys(kd, now) = SeqKeys(after)
           /\ ColValues(kd, now) = SeqValues(after)
           /\ ColIterator(kd, now) = after ]_vars

\* ------------------------------------------------------------------------
\* Properties of the two kinds side by side, of clone and of concat

\* C3: a jsonCollection and a mapCollection given the same set, get, has,
\* delete and clear calls with string keys return the same from every get
\* and has, and have equal keys, values, entries and size after every call.
C3_SameContract ==
  last.col = "both" =>
    /\ last.op \in {"get", "has"} => last.ret = last.ret2
    /\ jsonKeys(Store("c")) = mapKeys(Store("c2"))
    /\ jsonValues(Store("c")) = mapValues(Store("c2"))
    /\ jsonEntries(Store("c")) = mapEntries(Store("c2"))
    /\ jsonSize(Store("c")) = mapSize(Store("c2"))

Mutations == {"set", "delete", "clear", "sweep"}

\* C8: once c2 = c.clone(), a set, delete, clear or sweep on c2 leaves the
\* entries of c as they were, and one on c leaves the entries of c2 as they
\* were, in either kind.
C8_CloneIndependence ==
  [][ (kind["c2"] /= "none" /\ last'.op \in Mutations) =>
        /\ last'.col = "c2" =>
             ColEntries(kind["c"], heap'[ref'["c"]]) = ColEntries(kind["c"], Store("c"))
        /\ last'.col = "c" =>
             ColEntries(kind["c2"], heap'[ref'["c2"]]) = ColEntries(kind["c2"], Store("c2")) ]_vars

\* a set on the clone c2 of a collection c that holds entries has made the
\* two differ
C8_Witness ==
  /\ kind["c2"] /= "none"
  /\ last.op = "set" /\ last.col = "c2"
  /\ Len(Store("c")) = MaxSize
  /\ ColEntries(kind["c"], Store("c")) /= ColEntries(kind["c2"], Store("c2"))

\* C9: right after c2 = c.clone(), c2 is of the kind of c, has the size and
\* the keys of c, and c.equal(c2) is true.
C9_CloneHoldsEntries ==
  last.op = "clone" =>
    /\ kind["c2"] = kind["c"]
    /\ ColSize(kind["c2"], Store("c2")) = ColSize(kind["c"], Store("c"))
    /\ ColKeys(kind["c2"], Store("c2")) = ColKeys(kind["c"], Store("c"))
    /\ equal(kind["c"], Store("c"), kind["c2"], Store("c2"), FALSE) = True

\* the receiver and the arguments of a call of concat, in order
Sources(call) == <<call.col>> \o call.args

\* C10: c3 = c.concat(...args) is a new collection, c and the arguments are
\* left as they were, c3 has every key of c and of every argument, and the
\* value of a key is the one of the last of c, args... that holds it.
C10_Concat ==
  [][ (last'.op = "concat" /\ last'.ret = Self) =>
        LET src == Sources(last')
            kd3 == kind'["c3"]
            st3 == heap'[ref'["c3"]]
        IN /\ ref'["c3"] \notin {ref[x] : x \in {"c", "c2"}}
           /\ \A x \in {"c", "c2"} : heap'[ref'[x]] = Store(x)
           /\ \A i \in 1..Len(src) :
                LET it == ColEntries(kind[src[i]], Store(src[i])) IN
                \A j \in 1..Len(it) :
                  /\ ColHas(kd3, st3, it[j].k) = True
                  /\ (\A i2 \in (i + 1)..Len(src) :
                        StorageKey(kd3, it[j].k) \notin
                          {StorageKey(kd3, k2) :
                             k2 \in KeySet(ColEntries(kind[src[i2]], Store(src[i2])))})
                     => ColGet(kd3, st3, it[j].k) = it[j].v ]_vars

\* ------------------------------------------------------------------------
\* Properties of sweep and clear

LoadResolves(t) ==
  /\ task[t].op = "load" /\ task[t].pc = "resume"
  /\ task'[t].pc = "done" /\ task'[t].out.how = "resolve"

\* c2 is new and what its load(path, true) read is what c.save(path, true)
\* wrote, c being now as it was saved
TripCase ==
  /\ LoadResolves("t1") /\ task["t1"].ow
  /\ kind["c2"] /= "none" /\ Store("c2") = << >>
  /\ task["t1"].data = <<ColToJSON(kind["c"], Store("c"))>>

\* C12: for c of either kind with string keys and JSON-representable values,
\* once c.save(path, true) has completed and a new c2 of the same kind has
\* completed load(path, true) of the same path, c.equal(c2) is true.
C12_RoundTrip ==
  [][ TripCase =>
        equal(kind["c"], heap'[ref'["c"]], kind["c2"], heap'[ref'["c2"]],
              FALSE) = True ]_vars

\* a string, number, boolean or null
Primitive(x) == x.t \in {"string", "number", "boolean", "null"}

\* C12 as the code has it: the same, for values that are strings, numbers,
\* booleans or null.
C12_RoundTripOfPrimitives ==
  [][ (TripCase /\ \A i \in 1..Len(Store("c")) : Primitive(Store("c")[i].v)) =>
        equal(kind["c"], heap'[ref'["c"]], kind["c2"], heap'[ref'["c2"]],
              FALSE) = True ]_vars

\* c holds two entries, was saved, c2 was loaded and c.equal(c2) said true
C12_Witness ==
  /\ last.op = "equal" /\ last.col = "c" /\ last.ret = True
  /\ Len(Store("c")) = 2
  /\ task["t1"].op = "load" /\ task["t1"].out.how = "resolve"
  /\ files["/cwda.json"] = File(<<ColToJSON(kind["c"], Store("c"))>>)

\* C13: after a successful load(path, true) the collection holds exactly the
\* entries of the parsed file object and none of its previous ones; after a
\* successful load(path, false) every previous entry whose key is not in the
\* file is kept with its value and every key of the file is present with the
\* file's value.  In both kinds.
C13_LoadSemantics ==
  [][ LoadResolves("t1") =>
        LET x == task["t1"].col
            kd == kind[x]
            before == Store(x)
            after == heap'[ref'[x]]
            data == JSONparse(task["t1"].data)
        IN IF task["t1"].ow
           THEN ColEntries(kd, after) = data
           ELSE /\ \A i \in 1..Len(ColEntries(kd, before)) :
                     LET e == ColEntries(kd, before)[i] IN
                     e.k \notin KeySet(data) =>
                       /\ ColHas(kd, after, e.k) = True
                       /\ ColGet(kd, after, e.k) = e.v
                /\ \A i \in 1..Len(data) :
                     /\ ColHas(kd, after, data[i].k) = True
                     /\ ColGet(kd, after, data[i].k) = data[i].v
                /\ ColSize(kd, after) =
                     Cardinality(KeySet(ColEntries(kd, before)) \cup KeySet(data)) ]_vars

\* a load(path, false) that kept the entry under "a" and brought the two
\* entries of the file, the one under "1" in place of the collection's own
C13_Witness ==
  /\ last.op = "load" /\ task["t1"].out.how = "resolve" /\ ~task["t1"].ow
  /\ ColGet(kind["c"], Store("c"), Str("a")) = Str("x")
  /\ ColGet(kind["c"], Store("c"), Str("1")) = Num("1")
  /\ ColGet(kind["c"], Store("c"), Str("b")) = ParsedObj
  /\ ColSize(kind["c"], Store("c")) = 3

\* the save in slot t resumes in this step, its write (or append) done
SaveWritten(t) ==
  /\ task[t].op = "save" /\ task[t].pc = "resume" /\ task[t].err = NoValue
  /\ task'[t].pc = "done"

\* C14: a save whose file write succeeds resolves to true, with overwrite
\* true and with overwrite false.
C14_SaveResolvesTrue ==
  [][ SaveWritten("t1") => task'["t1"].out = Outcome("resolve", True) ]_vars

\* C15: after a successful save(path, true) the content of the file is
\* exactly toJSON() of the collection, nothing of the previous content left;
\* after a successful save(path, false) it is the previous content, intact,
\* followed by toJSON().  toJSON() is what the collection gave when save was
\* called.
C15_FileAfterSave ==
  [][ LET t == "t1"
          f == ResolvePath(task[t].path.v)
          x == task'[t].col IN
      /\ (task'[t].op = "save" /\ task'[t].pc = "io" /\ task[t].pc /= "io") =>
           task'[t].data = <<ColToJSON(kind[x], Store(x))>>
      /\ ( /\ task[t].op = "save" /\ task[t].pc = "io"
           /\ task'[t].pc = "resume" /\ task'[t].err = NoValue ) =>
           /\ files'[f].exists
           /\ files'[f].text = IF task[t].ow THEN task[t].data
                               ELSE files[f].text \o task[t].data
           /\ \A g \in FileNames \ {f} : files'[g] = files[g] ]_vars

\* a save(path, false) of two entries behind text that was in the file
C15_Witness ==
  /\ task["t1"].op = "save" /\ task["t1"].out.how = "resolve" /\ ~task["t1"].ow
  /\ Len(Store("c")) = 2
  /\ files["/cwda.json"] =
       File(<<Garbage, ColToJSON(kind["c"], Store("c"))>>)

\* C16: a load of a file whose content is empty or no valid JSON fails with
\* the data error, a failure to read the file is passed on as it is, and
\* in both cases, for both values of overwrite, the entries of the
\* collection are left as they were.
C16_LoadFailure ==
  [][ LET t == "t1" IN
      /\ (task[t].op = "load" /\ task[t].pc = "resume" /\ task'[t].pc = "done") =>
           /\ task[t].err /= NoValue =>
                task'[t].out = Outcome("reject", task[t].err)
           /\ (task[t].err = NoValue /\ ~ValidJSON(task[t].data)) =>
                task'[t].out = Outcome("reject", DataError)
      /\ (task' /= task /\ ~LoadResolves(t)) => heap' = heap ]_vars

\* a load(path, true) of text that is no JSON, rejected with the data error,
\* the collection still holding its two entries
C16_Witness ==
  /\ last.op = "load" /\ task["t1"].ow
  /\ task["t1"].out = Outcome("reject", DataError)
  /\ files["/cwda.json"] = File(<<Garbage>>)
  /\ ColSize(kind["c"], Store("c")) = 2

\* a path that is no string or does not end in ".json"
BadPath(path) == TypeOf(path) /= "string" \/ ~EndsWithJson(path.v)

\* C17: save or load called with a path that is no string or does not end in
\* ".json" fails with a validation error, no file is read, written or
\* appended and the entries of the collection are unchanged; no file
\* operation of a save or load happens before its path has passed.
C17_ValidationFirst ==
  [][ LET t == "t1" IN
      /\ (task'[t] /= task[t] /\ BadPath(task'[t].path)) =>
           /\ task'[t].pc = "done"
           /\ task'[t].out.how /= "resolve"
           /\ task'[t].out.v =
                (IF TypeOf(task'[t].path) /= "string" THEN ThrowTypeError
                 ELSE PathError)
           /\ files' = files /\ heap' = heap
      /\ task'[t].pc \in {"io", "resume"} => ~BadPath(task'[t].path)
      /\ files' /= files =>
           (task[t].pc = "io" /\ ~BadPath(task[t].path)) ]_vars

\* a load with a path that does not end in ".json", failed, on a collection
\* of two entries while the file is there
C17_Witness ==
  /\ last.op = "load" /\ task["t1"].path = Str("a.txt")
  /\ task["t1"].pc = "done" /\ task["t1"].out.v = PathError
  /\ files["/cwda.json"].exists
  /\ ColSize(kind["c"], Store("c")) = 2

\* the call in slot t settles in this step
Settles(t) == task'[t] /= task[t] /\ task'[t].pc = "done"

\* C18: a path-validation failure of save or load is raised to the caller at
\* the call itself, and only failures of the file operation come through
\* the rejected promise.
C18_ErrorChannel ==
  [][ Settles("t1") =>
        /\ BadPath(task'["t1"].path) => task'["t1"].out.how = "throw"
        /\ task'["t1"].out.how = "reject" => task'["t1"].out.v = FsError ]_vars

\* C18 as the code has it: save and load never throw at the call; every
\* failure, that of the path validation like the data error and the failure
\* of the file operation, rejects the promise the call returned, the one of
\* the validation in the step of the call itself.
C18_FailuresReject ==
  [][ Settles("t1") =>
        /\ task'["t1"].out.how \in {"resolve", "reject"}
        /\ task'["t1"].out.how = "resolve" <=>
             task'["t1"].out.v \in {True, Undefined, Self}
        /\ BadPath(task'["t1"].path) =>
             /\ task["t1"].pc \in {"idle", "done"}
             /\ last'.ret = Promise("t1")
             /\ task'["t1"].out.how = "reject"
             /\ task'["t1"].out.v \in {ThrowTypeError, PathError} ]_vars

\* a save with a number as path, its promise rejected with the TypeError
C18_Witness ==
  /\ last.op = "save" /\ last.ret = Promise("t1")
  /\ task["t1"].path = Num("1")
  /\ task["t1"].out = Outcome("reject", ThrowTypeError)

\* ------------------------------------------------------------------------
\* Properties of filter and slice

\* C19: c2 = c.filter(fn) is, for every c and the empty one too, a new
\* collection of the kind of c and not c itself, holding exactly the entries
\* of c that fn is truthy for, in the order of c; c is unchanged, and a
\* later set, delete, clear or sweep on c2 does not change c.
C19_Filter ==
  [][ /\ last'.op = "filter" =>
           /\ ref'["c2"] /= ref'["c"]
           /\ kind'["c2"] = kind["c"]
           /\ ColEntries(kind["c"], heap'[ref'["c2"]]) =
                SelectSeq(ColEntries(kind["c"], Store("c")),
                          LAMBDA e : Apply(last'.key.v, e.v, e.k))
           /\ heap'[ref'["c"]] = Store("c")
      /\ (kind["c2"] /= "none" /\ last'.op \in Mutations /\ last'.col = "c2") =>
           ColEntries(kind["c"], heap'[ref'["c"]]) =
             ColEntries(kind["c"], Store("c")) ]_vars

\* C20: c2 = c.slice(start, end) is a new collection of the kind of c that
\* holds exactly the entries of c at the positions start .. end - 1 (start 0
\* and end 1 when omitted), in the order of c, and c is unchanged.
C20_Slice ==
  [][ last'.op = "slice" =>
        LET kd == kind["c"]
            before == ColEntries(kd, Store("c"))
            at == {p \in 0..(Len(before) - 1) : last'.n <= p /\ p < last'.m}
            result == ColEntries(kd, heap'[ref'["c2"]])
        IN /\ ref'["c2"] /= ref'["c"]
           /\ kind'["c2"] = kd
           /\ Len(result) = Cardinality(at)
           /\ \A i \in 1..Len(result) : result[i] = before[last'.n + i]
           /\ (last'.key = False) => (last'.n = 0 /\ last'.m = 1)
           /\ heap'[ref'["c"]] = Store("c") ]_vars

\* slice(1, 3) of a collection of five entries: the entries at 1 and 2
C20_Witness ==
  /\ last.op = "slice" /\ last.n = 1 /\ last.m = 3
  /\ ColSize(kind["c"], Store("c")) = 5
  /\ ColEntries(kind["c2"], Store("c2")) =
       SubSeq(ColEntries(kind["c"], Store("c")), 2, 3)

\* ------------------------------------------------------------------------
\* Properties of reverse, of the reads by position and of the deletions by
\* position

\* C21: c2 = c.reverse() is a new collection of the kind of c whose keys are
\* the keys of c in exactly the reverse order, each with the value it has in
\* c, integer-like keys included, and c is unchanged.
C21_Reverse ==
  [][ last'.op = "reverse" =>
        LET kd == kind["c"]
            before == ColEntries(kd, Store("c"))
            result == ColEntries(kd, heap'[ref'["c2"]])
        IN /\ ref'["c2"] /= ref'["c"]
           /\ kind'["c2"] = kd
           /\ result = Reverse(before)
           /\ ColKeys(kd, heap'[ref'["c2"]]) = Reverse(ColKeys(kd, Store("c")))
           /\ heap'[ref'["c"]] = Store("c") ]_vars

\* C22: firstKey(n), lastKey(n), first(n) and last(n) return null on an empty
\* collection and undefined when n is greater than size; with n omitted the
\* single key or value at position 0 (firstKey, first) or at the last
\* position (lastKey, last), whatever that key or value is; with
\* 2 <= n <= size an array of exactly n keys or values from that end.
C22_Ends ==
  [][ last'.op \in {"firstKey", "lastKey", "first", "last"} =>
        LET kd == kind["c"]
            size == ColSize(kd, Store("c"))
            all == IF last'.op \in {"firstKey", "lastKey"}
                   THEN ColKeys(kd, Store("c")) ELSE ColValues(kd, Store("c"))
            fromStart == last'.op \in {"firstKey", "first"}
            n == last'.n
        IN IF size = 0 THEN last'.ret = Null
           ELSE IF last'.key = True /\ n > size THEN last'.ret = Undefined
           ELSE IF last'.key = False
           THEN last'.ret = IF fromStart THEN all[1] ELSE all[size]
           ELSE /\ last'.ret = Arr
                /\ Len(last'.args) = n
                /\ IF fromStart THEN last'.args = SubSeq(all, 1, n)
                   ELSE Reverse(last'.args) = SubSeq(all, size - n + 1, size)
    ]_vars

\* C23: the deletions by position remove exactly the entries the reads by
\* position resolve, whatever the stored keys are (0, "", false, null
\* included): deleteAt(i) the entry at position i, deleteFirst() and
\* deleteLast() the first and the last entry, deleteFirst(n) and
\* deleteLast(n) with 2 <= n <= size the first and the last n entries,
\* deleteRange(s, e) the entries at the positions s .. e - 1.
C23_DeleteByPosition ==
  [][ last'.op \in {"deleteAt", "deleteFirst", "deleteLast", "deleteRange"} =>
        LET kd == kind["c"]
            before == ColEntries(kd, Store("c"))
            after == ColEntries(kd, heap'[ref'["c"]])
            size == Len(before)
            Min(a, b) == IF a < b THEN a ELSE b
            n == IF last'.key = True THEN last'.n ELSE 1
            \* before without the positions from .. to - 1
            Cut(from, to) ==
              SubSeq(before, 1, from) \o SubSeq(before, Min(to, size) + 1, size)
        IN CASE last'.op = "deleteAt" ->
                  LET p == IF last'.n < 0 THEN size + last'.n ELSE last'.n IN
                  (0 <= p /\ p < size) => after = Cut(p, p + 1)
             [] last'.op = "deleteFirst" ->
                  (1 <= n /\ n <= size) => after = Cut(0, n)
             [] last'.op = "deleteLast" ->
                  (1 <= n /\ n <= size) => after = Cut(size - n, size)
             [] last'.op = "deleteRange" ->
                  LET start == CHOOSE i \in 0..9 : NumOf(i) = last'.key IN
                  after = Cut(Min(start, size), last'.n)
    ]_vars

\* C25: randomKey(lo, hi) returns null on an empty collection and otherwise
\* a key the collection holds; with numbers lo and hi the key is at a
\* position of the window lo .. hi, whatever the random draw; random(lo, hi)
\* returns the value stored under such a key.  (Stated for the windows that
\* lie within the collection, hi < size.)
C25_Random ==
  [][ last'.op \in {"randomKey", "random"} =>
        LET kd == kind["c"]
            size == ColSize(kd, Store("c"))
            all == IF last'.op = "randomKey"
                   THEN ColKeys(kd, Store("c")) ELSE ColValues(kd, Store("c"))
            window == IF last'.key = True THEN last'.n..last'.m
                      ELSE 0..(size - 1)
        IN IF size = 0 THEN last'.op = "randomKey" => last'.ret = Null
           ELSE IF last'.key = True /\ last'.m >= size THEN TRUE
           ELSE \E p \in window : all[p + 1] = last'.ret ]_vars

\* ------------------------------------------------------------------------
\* Properties of the calls in flight

\* C27: save writes the collection as it was when save was called: the text
\* to write is toJSON() at the call, a set, delete or clear while the write
\* is pending leaves that text as it is, and the text is what the write puts
\* into the file.
C27_SaveSnapshot ==
  [][ LET t == "t1"
          f == ResolvePath(task[t].path.v)
          x == task'[t].col
          pending == task[t].op = "save" /\ task[t].pc = "io" IN
      /\ (task'[t].op = "save" /\ task'[t].pc = "io" /\ ~pending) =>
           task'[t].data = <<ColToJSON(kind[x], Store(x))>>
      /\ (pending /\ task'[t].pc = "io") =>
           /\ last'.op \in {"set", "delete", "clear"}
           /\ task'[t].data = task[t].data
      /\ (pending /\ task'[t].pc = "resume" /\ task'[t].err = NoValue) =>
           LET text == files'[f].text IN
           /\ text /= << >>
           /\ <<text[Len(text)]>> = task[t].data ]_vars

\* the collection has been cleared while the write is pending, and the text
\* to write is still the one of the two entries it held at the call
C27_Witness ==
  /\ task["t1"].op = "save" /\ task["t1"].pc = "io"
  /\ last.op = "clear" /\ Store("c") = << >>
  /\ Len(JSONparse(task["t1"].data)) = 2

\* C26: with two calls of load(path, true) on one collection in flight, each
\* installs what it read in one step when it resumes, and once both have
\* resolved the collection holds exactly the entries of the file read by
\* the load whose I/O completed last: it never ends with entries of both
\* files mixed.
C26_RacingLoads ==
  [][ LET kd == kind["c"]
          after == ColEntries(kd, heap'[ref'["c"]])
          FileRead(t) == JSONparse(files[ResolvePath(task'[t].path.v)].text)
          HasResolved(t) == /\ task'[t].op = "load" /\ task'[t].pc = "done"
                         /\ task'[t].out.how = "resolve" IN
      /\ \A t \in Tasks :
           (LoadResolves(t) /\ task[t].ow) => after = JSONparse(task[t].data)
      /\ ((\A t \in Tasks : HasResolved(t)) /\ last'.op = "load") =>
           \E t \in Tasks : task'[t].later /\ after = FileRead(t) ]_vars

\* both loads have resolved; the one of b.json completed its I/O first and
\* the one of a.json last, and the collection holds the entry of a.json
C26_Witness ==
  /\ \A t \in Tasks : task[t].op = "load" /\ task[t].out.how = "resolve"
  /\ task["t1"].path = Str("/b.json") /\ task["t2"].path = Str("a.json")
  /\ task["t2"].later
  /\ Len(files["/cwd//b.json"].text[1].props) = 2
  /\ ColEntries(kind["c"], Store("c")) = <<Entry(Str("a"), Str("y"))>>

\* C28: after a successful load(path, true) on a jsonCollection, whatever
\* JSON the file holds, the store is still a mapping of keys to values with
\* size the number of its keys, and size, keys, has, get, set and delete
\* keep working: none of them raises for a string key.
C28_StoreShape ==
  [][ kind["c"] = "json" =>
        /\ (LoadResolves("t1") /\ task["t1"].ow) =>
             LET after == heap'[ref'["c"]] IN
             /\ IsObject(after)
             /\ jsonSize(after) = Len(jsonKeys(after))
        /\ (last'.op \in {"size", "keys", "has", "get", "set", "delete"}
              /\ last' /= last) => last'.ret /= ThrowTypeError ]_vars

\* ------------------------------------------------------------------------
\* Properties of the methods that read

\* C30: keys, values, entries, sort, sortKeys, reverseKeys, reverseValues,
\* firstKey, lastKey, first, last, at, keyAt, map, mapKeys, reduce,
\* filterKeys, filterEntries, split, toJSON and equal leave the entries of
\* the receiver and their order as they were; an array they return is not
\* the store of the receiver, and a change of that array leaves the entries
\* of the receiver as they were.
C30_ReadsLeaveReceiver ==
  [][ /\ (last'.op \in ReadOps \cup {"equal"} /\ last'.col = "c") =>
           /\ ref'["c"] = ref["c"] /\ kind'["c"] = kind["c"]
           /\ heap'[ref'["c"]] = Store("c")
           /\ last'.ret = Arr =>
                (kind'["c3"] = "array" /\ ref'["c3"] /= ref'["c"])
      /\ last'.op = "shift" =>
           /\ heap'[ref'["c"]] = Store("c")
           /\ ref'["c"] = ref["c"] /\ kind'["c"] = kind["c"] ]_vars

\* an array of MaxSize elements read from a collection of MaxSize entries
\* has lost its first element to shift, and the collection has its MaxSize
\* entries
C30_Witness ==
  /\ last.op = "shift" /\ kind["c3"] = "array"
  /\ ColSize(kind["c"], Store("c")) = MaxSize
  /\ Len(Store("c3")) = MaxSize - 1

\* ------------------------------------------------------------------------
\* Properties of equal

\* C24: x.equal(other) is true if and only if other is x itself, or other is
\* a compatible collection (of the kind of x, or a Map, which a mapCollection
\* is) of the same size in which every key of x is present with a strictly
\* equal value; for a plain object, one with a size property too, it is
\* never true.
C24_Equal ==
  [][ last'.op = "equal" =>
        IF last'.key = Obj THEN last'.ret /= True
        ELSE LET x == last'.col
                 y == last'.args[1]
                 mine == ColEntries(kind[x], Store(x))
                 theirs == ColEntries(kind[y], Store(y))
             IN (last'.ret = True) <=>
                  \/ ref[x] = ref[y]
                  \/ /\ kind[y] \in {kind[x], "map"}
                     /\ Len(mine) = Len(theirs)
                     /\ \A i \in 1..Len(mine) : Includes(theirs, mine[i]) ]_vars

\* C29: equal is symmetric: for two collections a and b of either kind
\* a.equal(b) and b.equal(a) return the same.
C29_EqualSymmetric ==
  [][ (last'.op = "equal" /\ last'.key /= Obj) =>
        LET x == last'.col
            y == last'.args[1]
        IN last'.ret = equal(kind[y], Store(y), kind[x], Store(x), x = y)
    ]_vars

====
